---- MODULE Spec2Model ----
(***************************************************************************)
(* Model of the agentic execution lane of the workerpals OpenHands         *)
(* executor (apps/workerpals/scripts/openhands_executor.py): the candidate *)
(* model loop of _run_agentic_task_execute together with the helpers it    *)
(* calls (model-name normalisation, embedding detection, error-signature   *)
(* matching, chat preflight, fallback discovery).                          *)
(*                                                                         *)
(* Strings are modelled as sequences of tokens.  A model name is the       *)
(* sequence of its "/"-separated segments; an error text or a preflight    *)
(* detail is a sequence of phrases.  Substring tests of the source become  *)
(* phrase-containment tests (Contains).                                    *)
(***************************************************************************)
EXTENDS Integers, Sequences, FiniteSets, TLC

\* ------------------------------------------------------------------ bounds
\* longest model list one discovery call returns
MaxDiscovered == 2
\* most pieces of text in one classifier completion
MaxContentPieces == 2
\* longest agent run, in clock ticks
MaxRunTicks == 4
\* largest timeout-recovery attempt count and steering nudge count configured
MaxRecoveryAttempts == 2
MaxNudges == 2

\* the path pieces after the host of a raw endpoint URL
MaxUrlPieces == 3
\* the "/"-separated segments of a raw model name
MaxNameSegments == 3
\* the components of a path, from "/" down
MaxPathDepth == 3
\* the tokens of a file's content
MaxFileTokens == 2
\* the operations run one after the other on one checkout
MaxOps == 3

\* --------------------------------------------------------- program constants
\* preflight detail keeps body_text[:180]
BodyDetailChars == 180
\* the exhausted report keeps preflight_failures[-5:]
ReportedPreflightFailures == 5

DEFAULT_OPENHANDS_MODEL == <<"local-model">>

\* the provider prefixes of KNOWN_LITELLM_PROVIDER_PREFIXES the model uses
KNOWN_LITELLM_PROVIDER_PREFIXES == {"openai", "ollama", "azure"}

\* ------------------------------------------------------------ text helpers
\* str.lower() on one token
LowerTok(t) ==
    CASE t = "OpenAI" -> "openai"
      [] t = "M1" -> "m1"
      [] t = "OLLAMA" -> "ollama"
      [] t = "LMStudio" -> "lmstudio"
      [] t = "Deterministic" -> "deterministic"
      [] OTHER -> t

\* the signature phrases that occur inside a (lowered) token
PhrasesOf(t) ==
    CASE t = "failed to load model" -> {"failed to load model", "model"}
      [] t = "model loading was stopped" -> {"model loading was stopped", "model"}
      [] t = "timed out after 10s" -> {"timed out"}
      [] t = "timed out after 3s" -> {"timed out"}
      [] t = "urlopen error timed out" -> {"timed out"}
      [] t = "timed out" -> {"timed out"}
      [] t = "read timeout" -> {"timeout"}
      [] t = "Model Not Found" -> {"model", "not found"}
      [] OTHER -> {t}

\* `phrase in text.lower()`
Contains(text, phrase) ==
    \E i \in 1..Len(text) : phrase \in PhrasesOf(LowerTok(text[i]))

\* number of characters of a token (a separating blank included)
Width(t) ==
    CASE t = "pad" -> 175
      [] t = "failed to load model" -> 21
      [] t = "model loading was stopped" -> 26
      [] t = "insufficient system resources" -> 30
      [] t = "out of memory" -> 14
      [] t = "unknown field" -> 14
      [] t = "not found" -> 10
      [] t = "Model Not Found" -> 16
      [] OTHER -> 6

\* text[:n] : the longest prefix of whole phrases that fits into n characters
\* (a phrase cut by the slice no longer matches its signature)
RECURSIVE Truncate(_, _)
Truncate(text, n) ==
    IF text = <<>> \/ Width(Head(text)) > n + 1 THEN <<>>
    ELSE <<Head(text)>> \o Truncate(Tail(text), n - Width(Head(text)))

Range(s) == {s[i] : i \in 1..Len(s)}

\* list(dict.fromkeys(s)) : drop later duplicates, keep first-occurrence order
RECURSIVE DedupKeepFirst(_)
DedupKeepFirst(s) ==
    IF s = <<>> THEN <<>>
    ELSE LET init == DedupKeepFirst(SubSeq(s, 1, Len(s) - 1))
             last == s[Len(s)]
         IN IF last \in Range(init) THEN init ELSE Append(init, last)

\* ------------------------------------------------------------- model names
\* str.lstrip() and str.rstrip() on one "/"-segment of a name
LStripTok(t) ==
    CASE t = " m1 " -> "m1 "
      [] t = " m1" -> "m1"
      [] t = "   " -> ""
      [] OTHER -> t

RStripTok(t) ==
    CASE t = " m1 " -> " m1"
      [] t = "m1 " -> "m1"
      [] t = "openai " -> "openai"
      [] t = "   " -> ""
      [] OTHER -> t

\* model.strip() : blanks go from the front of the first segment and the end
\* of the last one; the empty string is the empty sequence
StripName(model) ==
    IF model = <<>> THEN <<>>
    ELSE LET a == [model EXCEPT ![1] = LStripTok(@)]
             b == [a EXCEPT ![Len(a)] = RStripTok(@)]
         IN IF b = <<"">> THEN <<>> ELSE b

\* model.split("/", 1)[0].strip().lower()
ProviderSegment(model) == LowerTok(RStripTok(LStripTok(model[1])))

_model_is_provider_qualified(model) ==
    /\ Len(model) >= 2
    /\ ProviderSegment(model) \in KNOWN_LITELLM_PROVIDER_PREFIXES

\* the provider put in front of every name, qualified or not
_normalize_litellm_model_always_prefix(model, provider) ==
    LET normalized == StripName(model)
    IN IF normalized = <<>> THEN normalized
       ELSE IF provider = "" THEN normalized
       ELSE <<provider>> \o normalized

_normalize_litellm_model(model, provider) ==
    LET normalized == StripName(model)
    IN IF normalized = <<>> THEN normalized
       ELSE IF _model_is_provider_qualified(normalized) THEN normalized
       ELSE IF provider = "" THEN normalized
       ELSE <<provider>> \o normalized

_providerless_model_name(model) ==
    LET normalized == StripName(model)
    IN IF Len(normalized) < 2 THEN normalized
       ELSE IF ProviderSegment(normalized) \in KNOWN_LITELLM_PROVIDER_PREFIXES
       THEN StripName(Tail(normalized))
       ELSE normalized

\* segments whose lowered text contains "embedding" / "nomic-embed"
EmbeddingSegments == {"text-embedding-3", "nomic-embed-text"}
\* segments whose lowered text starts with "embed"
EmbedPrefixedSegments == {"embed-english"}

_is_embedding_model(model) ==
    LET lowered == _providerless_model_name(model)
    IN \/ \E i \in 1..Len(lowered) : LowerTok(lowered[i]) \in EmbeddingSegments
       \/ (lowered # <<>> /\ LowerTok(lowered[1]) \in EmbedPrefixedSegments)
       \/ \E i \in 2..Len(lowered) : LowerTok(lowered[i]) \in EmbedPrefixedSegments

\* ------------------------------------------------------- error signatures
_is_model_load_failure(error_text) ==
    \/ Contains(error_text, "failed to load model")
    \/ Contains(error_text, "model loading was stopped")
    \/ Contains(error_text, "insufficient system resources")
    \/ Contains(error_text, "out of memory")
    \/ (Contains(error_text, "model") /\ Contains(error_text, "not found"))

\* only the three hint names recognised, not the generic rejection texts
_session_field_rejected_names_only(detail) ==
    \/ Contains(detail, "session_id")
    \/ Contains(detail, "conversation_id")
    \/ Contains(detail, "id_slot")

_session_field_rejected(detail) ==
    \/ Contains(detail, "session_id")
    \/ Contains(detail, "conversation_id")
    \/ Contains(detail, "id_slot")
    \/ Contains(detail, "unknown field")
    \/ Contains(detail, "unknown property")
    \/ Contains(detail, "additional properties")

\* ------------------------------------------------------------ chat preflight
\* the slot hint added after the unslotted variant instead of before it
_session_hint_body_variants_slot_last(provider, session_user, slot_configured) ==
    IF provider # "openai" \/ session_user = "" THEN << {} >>
    ELSE LET variants == << {"user", "session_id", "conversation_id"}, {"user"}, {} >>
         IN IF ~slot_configured THEN variants
            ELSE [i \in 1..(2 * Len(variants)) |->
                    IF i % 2 = 0 THEN variants[i \div 2] \cup {"id_slot"}
                    ELSE variants[(i + 1) \div 2]]

\* the hint fields each request-body variant carries beyond the plain body
_session_hint_body_variants(provider, session_user, slot_configured) ==
    IF provider # "openai" \/ session_user = "" THEN << {} >>
    ELSE LET variants == << {"user", "session_id", "conversation_id"}, {"user"}, {} >>
         IN IF ~slot_configured THEN variants
            ELSE [i \in 1..(2 * Len(variants)) |->
                    IF i % 2 = 1 THEN variants[(i + 1) \div 2] \cup {"id_slot"}
                    ELSE variants[i \div 2]]

_chat_completion_url(base_url, provider) ==
    IF provider = "ollama" THEN <<base_url, "/api/chat">>
    ELSE <<base_url, "/chat/completions">>

StatusTok(code) ==
    CASE code = 200 -> "200"
      [] code = 204 -> "204"
      [] code = 400 -> "HTTP 400"
      [] code = 401 -> "HTTP 401"
      [] code = 403 -> "HTTP 403"
      [] code = 404 -> "HTTP 404"
      [] code = 500 -> "HTTP 500"
      [] OTHER -> "HTTP 0"

\* no exception taken for a timeout
_is_timeout_error_never(r) == FALSE

\* _is_timeout_error: a socket timeout, or an exception whose text says so
_is_timeout_error(r) ==
    \/ r.kind = "timeout"
    \/ (r.kind = "neterr" /\ (Contains(r.text, "timed out") \/ Contains(r.text, "timeout")))

\* f"timed out after {timeout:.0f}s"
TimeoutTok(timeout) ==
    CASE timeout = 3 -> "timed out after 3s"
      [] OTHER -> "timed out after 10s"

\* an auth rejection counted as a failure
HttpErrorOutcomeAuthFails(code, body_text, is_last) ==
    IF code = 400 /\ ~is_last /\ _session_field_rejected(body_text) THEN "continue"
    ELSE "fail"

\* the HTTPError branch of _llm_model_chat_preflight (lines 720-735): try the
\* next body variant, or return ok / failure
HttpErrorOutcome(code, body_text, is_last) ==
    IF code = 400 /\ ~is_last /\ _session_field_rejected(body_text) THEN "continue"
    ELSE IF _is_model_load_failure(body_text) THEN "fail"
    ELSE IF Contains(body_text, "model") /\ Contains(body_text, "not found") THEN "fail"
    ELSE IF code \in {401, 403} THEN "ok"
    ELSE "fail"

\* One pass of the variant loop of _llm_model_chat_preflight from variant idx
\* on.  server[i] is the endpoint's answer to the i-th request body:
\*   [kind |-> "status", code]      urlopen returned a response
\*   [kind |-> "http", code, body]  urlopen raised HTTPError
\*   [kind |-> "timeout", text]     socket timeout
\*   [kind |-> "neterr", text]      any other exception
\* The value is the pair (ok, detail) together with the request bodies sent.
RECURSIVE PreflightFrom(_, _, _, _, _, _)
PreflightFrom(url, variants, server, idx, last_detail, timeout) ==
    IF idx > Len(variants)
    THEN [ok |-> FALSE, detail |-> last_detail, sent |-> variants]
    ELSE LET r == server[idx]
             sent == SubSeq(variants, 1, idx)
      IN
      CASE r.kind = "status" ->
             IF 200 <= r.code /\ r.code < 300
             THEN [ok |-> TRUE, detail |-> url \o <<"->", StatusTok(r.code)>>, sent |-> sent]
             ELSE PreflightFrom(url, variants, server, idx + 1,
                                url \o <<"->", StatusTok(r.code)>>, timeout)
        [] r.kind = "http" ->
             LET detail == url \o <<"->", StatusTok(r.code)>>
                               \o Truncate(r.body, BodyDetailChars)
                 outcome == HttpErrorOutcome(r.code, r.body, idx = Len(variants))
             IN IF outcome = "continue"
                THEN PreflightFrom(url, variants, server, idx + 1, detail, timeout)
                ELSE [ok |-> outcome = "ok", detail |-> detail, sent |-> sent]
        [] OTHER ->
             IF _is_timeout_error(r)
             THEN [ok |-> FALSE, detail |-> url \o <<TimeoutTok(timeout)>>, sent |-> sent]
             ELSE [ok |-> FALSE, detail |-> url \o r.text, sent |-> sent]

_llm_model_chat_preflight(base_url, provider, session_user, slot_configured, timeout, server) ==
    IF base_url = "" THEN [ok |-> TRUE, detail |-> <<"base URL unset">>, sent |-> <<>>]
    ELSE LET url == _chat_completion_url(base_url, provider)
             variants == _session_hint_body_variants(provider, session_user, slot_configured)
         IN PreflightFrom(url, variants, server, 1, url \o <<"preflight request failed">>,
                          timeout)

\* ------------------------------------------------------ base URL normalisation
\* A raw base URL is a sequence of pieces: the scheme and host, then path
\* pieces, single slashes and blanks.
RECURSIVE LStripPiece(_, _)
LStripPiece(s, piece) ==
    IF s # <<>> /\ s[1] = piece THEN LStripPiece(Tail(s), piece) ELSE s

RECURSIVE RStripPiece(_, _)
RStripPiece(s, piece) ==
    IF s # <<>> /\ s[Len(s)] = piece
    THEN RStripPiece(SubSeq(s, 1, Len(s) - 1), piece)
    ELSE s

\* base.endswith(suffix)
EndsWithPiece(s, suffix) == s # <<>> /\ s[Len(s)] = suffix

\* base[: -len(suffix)] when base ends with the suffix
DropSuffix(s, suffix) ==
    IF EndsWithPiece(s, suffix) THEN SubSeq(s, 1, Len(s) - 1) ELSE s

\* _normalize_base_url: strip blanks, strip the trailing slashes once, then
\* drop "/api/chat" and then "/chat/completions", each at most once
_normalize_base_url(raw) ==
    LET base == RStripPiece(LStripPiece(raw, " "), " ")
    IN IF base = <<>> THEN <<>>
       ELSE DropSuffix(DropSuffix(RStripPiece(base, "/"), "/api/chat"),
                       "/chat/completions")

\* ------------------------------------------------------ provider inference
\* "11434" in base_url.lower()
HasOllamaPort(url) == url \in {"http://localhost:11434", "http://ollama.example:11434/v1"}

\* the backend hint ignored, the URL alone decides
_infer_litellm_provider_url_only(backend_setting, base_url) ==
    IF HasOllamaPort(base_url) THEN "ollama" ELSE "openai"

\* _infer_litellm_provider, given the value of WORKERPALS_LLM_BACKEND
_infer_litellm_provider(backend_setting, base_url) ==
    LET backend == LowerTok(backend_setting)
    IN IF backend \in {"ollama", "ollama_chat"} THEN "ollama"
       ELSE IF backend \in {"lmstudio", "openai", "openai_compatible"} THEN "openai"
       ELSE IF HasOllamaPort(base_url) THEN "ollama"
       ELSE "openai"

\* ------------------------------------------------------ endpoint prober
\* normalized.endswith("/v1")
EndsWithV1(url) == url = "http://localhost:1234/v1"

\* _llm_probe_urls: three GET urls chosen by the provider prefix of the model
\* and the shape of the base URL (which arrives without a trailing slash)
_llm_probe_urls(base_url, model) ==
    LET provider == IF Len(model) >= 2 THEN LowerTok(model[1]) ELSE ""
    IN IF provider = "ollama"
       THEN << <<base_url, "/api/tags">>, <<base_url, "/tags">>, <<base_url>> >>
       ELSE IF EndsWithV1(base_url)
       THEN << <<base_url, "/models">>, <<base_url, "/chat/completions">>, <<base_url>> >>
       ELSE << <<base_url, "/v1/models">>, <<base_url, "/models">>, <<base_url>> >>

\* an HTTP error status counted as a failed probe
ProbeOutcomeHttpErrorFails(r) ==
    IF r.kind = "status" THEN "reachable" ELSE "next"

\* one probe of _llm_endpoint_reachable (lines 619-626): a response or an
\* HTTPError ends the loop, any other exception moves on to the next probe
ProbeOutcome(r) ==
    IF r.kind \in {"status", "http"} THEN "reachable" ELSE "next"

\* the probe loop from probe idx on; server[i] is what urlopen does with the
\* i-th probe
RECURSIVE ReachableFrom(_, _, _, _)
ReachableFrom(probes, server, idx, last_error) ==
    IF idx > Len(probes)
    THEN [raised |-> FALSE, reachable |-> FALSE, detail |-> last_error,
          probed |-> Len(probes)]
    ELSE LET r == server[idx]
         IN IF ProbeOutcome(r) = "reachable"
            THEN [raised |-> FALSE, reachable |-> TRUE,
                  detail |-> probes[idx] \o <<"->", StatusTok(r.code)>>,
                  probed |-> idx]
            ELSE ReachableFrom(probes, server, idx + 1, probes[idx] \o r.text)

_llm_endpoint_reachable(base_url, model, server) ==
    IF base_url = ""
    THEN [raised |-> FALSE, reachable |-> TRUE, detail |-> <<>>, probed |-> 0]
    ELSE ReachableFrom(_llm_probe_urls(base_url, model), server, 1,
                       <<"connection failed">>)

\* -------------------------------------------------------- tool-need classifier
_response_format_rejected(detail) == Contains(detail, "response_format")

\* the request bodies of _tool_need_preflight: for the OpenAI-compatible
\* provider every session-hint variant is sent with a JSON-schema hint, then
\* with the generic JSON-object hint, then with no hint (lines 848-881)
ToolBodyVariants(provider, session_user, slot_configured) ==
    LET base_variants == _session_hint_body_variants(provider, session_user, slot_configured)
        hints == <<"json_schema", "json_object", "none">>
    IN IF provider = "openai"
       THEN [i \in 1..(3 * Len(base_variants)) |->
               [fields |-> base_variants[(i + 2) \div 3],
                response_format |-> hints[((i - 1) % 3) + 1]]]
       ELSE [i \in 1..Len(base_variants) |->
               [fields |-> base_variants[i], response_format |-> "none"]]

\* The text content of a completion is a sequence of pieces:
\*   [t |-> "obj", json |-> fields]  the text of one complete JSON object
\*   [t |-> "{"], [t |-> "}"]        a lone brace
\*   [t |-> "["], [t |-> "prose"]    text without braces
OpensBrace(piece) == piece.t \in {"obj", "{"}
ClosesBrace(piece) == piece.t \in {"obj", "}"}

\* json.loads(text) gives a dict
LoadsAsObject(text) == Len(text) = 1 /\ text[1].t = "obj"

\* _extract_first_json_object (lines 745-763): the whole text, else the span
\* from the first "{" to the last "}"
_extract_first_json_object(text) ==
    IF text = <<>> THEN [ok |-> FALSE]
    ELSE IF LoadsAsObject(text) THEN [ok |-> TRUE, parsed |-> text[1].json]
    ELSE LET opens == {i \in 1..Len(text) : OpensBrace(text[i])}
             closes == {i \in 1..Len(text) : ClosesBrace(text[i])}
         IN IF opens = {} \/ closes = {} THEN [ok |-> FALSE]
            ELSE LET first == CHOOSE i \in opens : \A j \in opens : i <= j
                     last == CHOOSE i \in closes : \A j \in closes : j <= i
                     \* text.find("{") / text.rfind("}") are character positions:
                     \* inside one object piece the first "{" precedes the last "}"
                     sliced == IF last >= first THEN SubSeq(text, first, last) ELSE <<>>
                 IN IF last >= first /\ LoadsAsObject(sliced)
                    THEN [ok |-> TRUE, parsed |-> sliced[1].json]
                    ELSE [ok |-> FALSE]

\* a lenient parse failure reported as a hard failure as well
ParseFailureHardFailAlways(require_strict_json) == TRUE

\* "hard_fail": bool(require_strict_json)   (line 1019)
ParseFailureHardFail(require_strict_json) == require_strict_json

FailOpen(why, error) ==
    [needs_tools |-> TRUE, why |-> why, plan |-> "", first_command |-> "",
     error |-> error, hard_fail |-> FALSE]

HttpWhy(code) ==
    CASE code = 400 -> "tool preflight HTTP 400"
      [] code = 401 -> "tool preflight HTTP 401"
      [] code = 404 -> "tool preflight HTTP 404"
      [] OTHER -> "tool preflight HTTP 500"

\* the dict returned at lines 928-935
ToolHttpErrorDecision(code, body) == FailOpen(HttpWhy(code), body)

\* lines 1022-1039: the decision read from the parsed object
DecisionFromParsed(parsed) ==
    [needs_tools |-> IF parsed.needs_tools \in {"bool:true", "missing"} THEN TRUE
                     ELSE IF parsed.needs_tools = "bool:false" THEN FALSE
                     ELSE parsed.needs_tools \in {"str:1", "str:true", "str:yes", "str:on"},
     why |-> parsed.why, plan |-> parsed.plan, first_command |-> parsed.first_command,
     error |-> "", hard_fail |-> FALSE]

\* lines 993-1039: what _tool_need_preflight makes of the payload of a 2xx answer
\*   "malformed"  a JSON value without the expected shape: payload.get fails
\*   otherwise    [content |-> text pieces] read from the message
DecisionFromPayload(payload, require_strict_json) ==
    IF payload = [shape |-> "malformed"] THEN [raised |-> TRUE, error |-> "AttributeError"]
    ELSE LET raw_text == payload.content
             got == IF require_strict_json
                    THEN (IF LoadsAsObject(raw_text)
                          THEN [ok |-> TRUE, parsed |-> raw_text[1].json]
                          ELSE [ok |-> FALSE])
                    ELSE _extract_first_json_object(raw_text)
         IN IF got.ok THEN [raised |-> FALSE, decision |-> DecisionFromParsed(got.parsed)]
            ELSE [raised |-> FALSE,
                  decision |-> [needs_tools |-> TRUE,
                                why |-> "tool preflight response parse failed",
                                plan |-> "", first_command |-> "",
                                error |-> "parse failed | raw=",
                                hard_fail |-> ParseFailureHardFail(require_strict_json)]]

\* The request loop of _tool_need_preflight (lines 883-992) from variant idx
\* on.  server[i] answers the i-th request body:
\*   [kind |-> "ok", payload]       a 2xx answer; payload is
\*        [shape |-> "not_json"]    a body json.loads rejects
\*        [shape |-> "falsy"]       {} , [] or null
\*        [shape |-> "malformed"]   a JSON value without the expected shape
\*        [shape |-> "completion", content |-> pieces]
\*   [kind |-> "http", code, body]  urlopen raised HTTPError
\*   [kind |-> "timeout", text], [kind |-> "neterr", text]
RECURSIVE ToolRequestsFrom(_, _, _, _, _)
ToolRequestsFrom(nvariants, server, idx, last_err, require_strict_json) ==
    IF idx > nvariants
    THEN [raised |-> FALSE, requests |-> nvariants,
          decision |-> FailOpen("tool preflight request failed",
                                IF last_err # "" THEN last_err ELSE "no payload returned")]
    ELSE LET r == server[idx] IN
      CASE r.kind = "ok" ->
             IF r.payload.shape = "not_json"
             THEN [raised |-> FALSE, requests |-> idx,
                   decision |-> FailOpen("tool preflight request failed", "JSONDecodeError")]
             ELSE IF r.payload.shape = "falsy"
             THEN [raised |-> FALSE, requests |-> idx,
                   decision |-> FailOpen("tool preflight request failed", "no payload returned")]
             ELSE [requests |-> idx] @@ DecisionFromPayload(
                      IF r.payload.shape = "malformed" THEN [shape |-> "malformed"]
                      ELSE r.payload, require_strict_json)
        [] r.kind = "http" ->
             IF /\ r.code = 400
                /\ idx < nvariants
                /\ (_session_field_rejected(r.body) \/ _response_format_rejected(r.body))
             THEN ToolRequestsFrom(nvariants, server, idx + 1, "http body",
                                   require_strict_json)
             ELSE [raised |-> FALSE, requests |-> idx,
                   decision |-> ToolHttpErrorDecision(r.code, "http body")]
        [] r.kind = "timeout" ->
             [raised |-> FALSE, requests |-> idx,
              decision |-> FailOpen("tool preflight timed out after 45s", "timed out")]
        [] OTHER ->
             [raised |-> FALSE, requests |-> idx,
              decision |-> FailOpen(IF _is_timeout_error(r)
                                    THEN "tool preflight timed out after 45s"
                                    ELSE "tool preflight request failed", "exception text")]

_tool_need_preflight(enabled, provider, session_user, slot_configured, require_strict_json, server) ==
    IF ~enabled
    THEN [raised |-> FALSE, requests |-> 0,
          decision |-> FailOpen("tool preflight disabled by env", "")]
    ELSE ToolRequestsFrom(Len(ToolBodyVariants(provider, session_user, slot_configured)),
                          server, 1, "", require_strict_json)

\* ------------------------------------------------- discovery and selection
\* second component of _discover_available_models
ProbeDetail(base_url, ids) ==
    IF base_url = "" THEN <<"base URL is empty">>
    ELSE IF ids # <<>> THEN <<base_url, "/models", "->", "200">>
    ELSE <<base_url, "/models", "model list probe failed">>

\* names compared as spelled, case included
_pick_configured_or_available_model_case_sensitive(configured_model, available_models) ==
    IF available_models # <<>> THEN
        IF configured_model # <<>> THEN
            LET wanted == _providerless_model_name(configured_model)
                same(c) == _providerless_model_name(c) = wanted
                hits == SelectSeq(available_models, same)
            IN IF hits # <<>> THEN [model |-> hits[1], reason |-> "configured"]
               ELSE [model |-> available_models[1], reason |-> "available_fallback"]
        ELSE [model |-> available_models[1], reason |-> "available_default"]
    ELSE IF configured_model # <<>>
    THEN [model |-> configured_model, reason |-> "configured_unverified"]
    ELSE [model |-> DEFAULT_OPENHANDS_MODEL, reason |-> "default_local_model"]

\* a configured model the endpoint does not list is kept, unverified
_pick_configured_or_available_model_keeps_absent(configured_model, available_models) ==
    IF available_models # <<>> THEN
        IF configured_model # <<>> THEN
            LET wanted == _providerless_model_name(configured_model)
                same(c) == [i \in 1..Len(_providerless_model_name(c)) |->
                               LowerTok(_providerless_model_name(c)[i])]
                           = [i \in 1..Len(wanted) |-> LowerTok(wanted[i])]
                hits == SelectSeq(available_models, same)
            IN IF hits # <<>> THEN [model |-> hits[1], reason |-> "configured"]
               ELSE [model |-> configured_model, reason |-> "configured_unverified"]
        ELSE [model |-> available_models[1], reason |-> "available_default"]
    ELSE IF configured_model # <<>>
    THEN [model |-> configured_model, reason |-> "configured_unverified"]
    ELSE [model |-> DEFAULT_OPENHANDS_MODEL, reason |-> "default_local_model"]

\* an empty discovery result always answered with the fixed default
_pick_configured_or_available_model_default_on_empty(configured_model, available_models) ==
    IF available_models # <<>> THEN
        IF configured_model # <<>> THEN
            LET wanted == _providerless_model_name(configured_model)
                same(c) == [i \in 1..Len(_providerless_model_name(c)) |->
                               LowerTok(_providerless_model_name(c)[i])]
                           = [i \in 1..Len(wanted) |-> LowerTok(wanted[i])]
                hits == SelectSeq(available_models, same)
            IN IF hits # <<>> THEN [model |-> hits[1], reason |-> "configured"]
               ELSE [model |-> available_models[1], reason |-> "available_fallback"]
        ELSE [model |-> available_models[1], reason |-> "available_default"]
    ELSE [model |-> DEFAULT_OPENHANDS_MODEL, reason |-> "default_local_model"]

\* configured_model arrives stripped (_setting_str, _normalize_litellm_model),
\* so configured_model.strip() leaves it as it is
_pick_configured_or_available_model(configured_model, available_models) ==
    IF available_models # <<>> THEN
        IF configured_model # <<>> THEN
            LET wanted == _providerless_model_name(configured_model)
                same(c) == [i \in 1..Len(_providerless_model_name(c)) |->
                               LowerTok(_providerless_model_name(c)[i])]
                           = [i \in 1..Len(wanted) |-> LowerTok(wanted[i])]
                hits == SelectSeq(available_models, same)
            IN IF hits # <<>> THEN [model |-> hits[1], reason |-> "configured"]
               ELSE [model |-> available_models[1], reason |-> "available_fallback"]
        ELSE [model |-> available_models[1], reason |-> "available_default"]
    ELSE IF configured_model # <<>>
    THEN [model |-> configured_model, reason |-> "configured_unverified"]
    ELSE [model |-> DEFAULT_OPENHANDS_MODEL, reason |-> "default_local_model"]

\* the fixed default never appended
_fallback_models_after_load_failure_no_default(available_models, provider, failed_model) ==
    LET failed_norm == _normalize_litellm_model(failed_model, provider)
        normalized == [i \in 1..Len(available_models) |->
                          _normalize_litellm_model(available_models[i], provider)]
        keep(m) == m # <<>> /\ m # failed_norm /\ ~_is_embedding_model(m)
    IN DedupKeepFirst(SelectSeq(normalized, keep))

\* first component of _fallback_models_after_load_failure, given the list the
\* discovery call returned
_fallback_models_after_load_failure(available_models, provider, failed_model) ==
    LET failed_norm == _normalize_litellm_model(failed_model, provider)
        normalized == [i \in 1..Len(available_models) |->
                          _normalize_litellm_model(available_models[i], provider)]
        keep(m) == m # <<>> /\ m # failed_norm /\ ~_is_embedding_model(m)
        default_fallback == _normalize_litellm_model(DEFAULT_OPENHANDS_MODEL, provider)
        candidates == SelectSeq(normalized, keep)
                      \o (IF keep(default_fallback) THEN <<default_fallback>> ELSE <<>>)
    IN DedupKeepFirst(candidates)

\* new_candidates = [m for m in fallback_models
\*                   if m not in attempted_models and m not in pending]
NewCandidates(fallback_models, attempted, pending) ==
    LET fresh(m) == m \notin Range(attempted) /\ m \notin Range(pending)
    IN SelectSeq(fallback_models, fresh)

\* ------------------------------------------------------------------- inputs
Providers == {"openai", "ollama"}

\* normalized base URLs: unset, or a local endpoint
BaseUrls == {"", "http://localhost:1234/v1"}

_looks_local_base_url(base_url) == base_url = "http://localhost:1234/v1"

\* WORKERPALS_OPENHANDS_MODEL_PROBE_TIMEOUT_SEC at its default (line 1684)
model_probe_timeout_sec == 10

\* _stable_llm_session_user never returns an empty string
StableSessionUser == "pushpals-session-worker-task"

\* model ids as the endpoint lists them
RawIds == { <<"m1">>, <<"openai", "m1">>, <<"text-embedding-3">> }

\* WORKERPALS_LLM_MODEL as the operator sets it (possibly unset)
ConfiguredIds == { <<>>, <<"m1">>, <<"m2">>, <<"text-embedding-3">> }

\* _discover_available_models returns distinct, non-empty ids
DiscoveryLists ==
    UNION { { s \in [1..n -> RawIds] : \A i, j \in 1..n : i # j => s[i] # s[j] }
            : n \in 0..MaxDiscovered }

\* what the endpoint answers to a preflight request in the executions explored:
\* success, an auth rejection, a load failure, an unknown model, a load
\* failure reported behind a long preamble
FinalResponses ==
    { [kind |-> "status", code |-> 200],
      [kind |-> "http", code |-> 401, body |-> <<>>],
      [kind |-> "http", code |-> 500, body |-> <<"failed to load model">>],
      [kind |-> "http", code |-> 404, body |-> <<"Model Not Found">>],
      [kind |-> "http", code |-> 500, body |-> <<"pad", "out of memory">>] }

RejectedField == [kind |-> "http", code |-> 400, body |-> <<"unknown field">>]

\* texts of the exceptions the agent phase may raise
ErrTexts ==
    { <<"failed to load model">>,
      <<"connection refused">>,
      <<"connection error">>,
      <<"cannot truncate prompt with n_keep", "n_ctx">>,
      <<"boom">> }

\* results of _tool_need_preflight
ToolDecisionFailOpen ==
    [needs_tools |-> TRUE, why |-> "tool preflight request failed", plan |-> "",
     first_command |-> "", error |-> "refused", hard_fail |-> FALSE]

ToolDecisions ==
    { ToolDecisionFailOpen,
      [needs_tools |-> TRUE, why |-> "needs repo", plan |-> "",
       first_command |-> "", error |-> "", hard_fail |-> FALSE],
      [needs_tools |-> TRUE, why |-> "needs repo", plan |-> "",
       first_command |-> "ls", error |-> "", hard_fail |-> FALSE],
      [needs_tools |-> FALSE, why |-> "trivia", plan |-> "answer directly",
       first_command |-> "", error |-> "", hard_fail |-> FALSE],
      [needs_tools |-> FALSE, why |-> "", plan |-> "",
       first_command |-> "", error |-> "", hard_fail |-> FALSE],
      [needs_tools |-> TRUE, why |-> "tool preflight response parse failed", plan |-> "",
       first_command |-> "", error |-> "raw=not json", hard_fail |-> TRUE] }

\* the agent run (lines 1871-1878): the user message is sent, then
\* conversation.run(max_steps=...) is called, and conversation.run() once more
\* if that raised TypeError.  first / rest are what the first and any later call
\* of run does; the value lists the conversation calls made and tells whether
\* the run returned or which exception left it.
ConversationRun(first, rest) ==
    LET send == [ev |-> "send_message", what |-> "user_message"]
        run1 == [ev |-> "run", what |-> "max_steps"]
        run2 == [ev |-> "run", what |-> "default"]
    IN IF first = "ok" THEN [events |-> <<send, run1>>, raised |-> "none"]
       ELSE IF first # "TypeError" THEN [events |-> <<send, run1>>, raised |-> first]
       ELSE IF rest = "ok" THEN [events |-> <<send, run1, run2>>, raised |-> "none"]
       ELSE [events |-> <<send, run1, run2>>, raised |-> rest]

\* what one call of conversation.run may do: return, or raise
RunOutcomes == {"ok", "TypeError", "request timed out", "failed to load model", "boom"}

\* ------------------------------------------------- inputs of the helper calls
\* answers of the chat endpoint to one preflight request
ChatResponses ==
    FinalResponses \cup
    { [kind |-> "status", code |-> 204],
      [kind |-> "status", code |-> 0],
      [kind |-> "http", code |-> 403, body |-> <<"forbidden">>],
      [kind |-> "http", code |-> 401, body |-> <<"failed to load model">>],
      [kind |-> "http", code |-> 403, body |-> <<"Model Not Found">>],
      [kind |-> "http", code |-> 400, body |-> <<"unknown field">>],
      [kind |-> "http", code |-> 400, body |-> <<"bad request">>],
      [kind |-> "http", code |-> 500, body |-> <<"boom">>],
      [kind |-> "timeout", text |-> <<"timed out">>],
      [kind |-> "neterr", text |-> <<"urlopen error timed out">>],
      [kind |-> "neterr", text |-> <<"connection refused">>] }

\* answers after which the next body variant is tried, if there is one
ChatRetryResponses ==
    { RejectedField,
      [kind |-> "http", code |-> 400, body |-> <<"session_id">>],
      [kind |-> "status", code |-> 0] }

SessionUsers == {"", StableSessionUser}

ChatCalls ==
    { [fn |-> "_llm_model_chat_preflight", done |-> FALSE, out |-> <<>>,
       args |-> [session_user |-> u, slot |-> slot, timeout |-> t,
                 k |-> k, retry |-> retry, final |-> final]] :
        u \in SessionUsers, slot \in BOOLEAN, t \in {3, model_probe_timeout_sec}, k \in 0..6,
        retry \in ChatRetryResponses, final \in ChatResponses }

\* the JSON objects a classifier completion may hold
ParsedObjects ==
    { [needs_tools |-> "bool:false", why |-> "trivia", plan |-> "answer directly",
       first_command |-> ""],
      [needs_tools |-> "str:yes", why |-> "needs repo", plan |-> "",
       first_command |-> "ls"],
      [needs_tools |-> "missing", why |-> "", plan |-> "", first_command |-> ""] }

ContentPieces ==
    { [t |-> "obj", json |-> o] : o \in ParsedObjects }
    \cup { [t |-> "{"], [t |-> "}"], [t |-> "prose"] }

Contents == UNION { [1..n -> ContentPieces] : n \in 0..MaxContentPieces }

\* answers of the endpoint to one classifier request that end the request loop
ToolFailures ==
    { [kind |-> "http", code |-> 500, body |-> <<"boom">>],
      [kind |-> "http", code |-> 400, body |-> <<"response_format">>],
      [kind |-> "http", code |-> 400, body |-> <<"bad request">>],
      [kind |-> "http", code |-> 401, body |-> <<>>],
      [kind |-> "timeout", text |-> <<"timed out">>],
      [kind |-> "neterr", text |-> <<"connection refused">>],
      [kind |-> "neterr", text |-> <<"read timeout">>],
      [kind |-> "ok", payload |-> [shape |-> "not_json"]],
      [kind |-> "ok", payload |-> [shape |-> "falsy"]],
      [kind |-> "ok", payload |-> [shape |-> "malformed"]] }

ToolCompletions ==
    { [kind |-> "ok", payload |-> [shape |-> "completion", content |-> c]] : c \in Contents }

ToolRetryResponses ==
    { RejectedField, [kind |-> "http", code |-> 400, body |-> <<"response_format">>] }

\* most request bodies of one classifier call: three hints for each of the six
\* session-hint variants
MostToolVariants == 18

ToolCalls ==
    { [fn |-> "_tool_need_preflight", done |-> FALSE, out |-> <<>>,
       args |-> [session_user |-> u, slot |-> slot, require_strict_json |-> strict,
                 k |-> k, retry |-> retry, final |-> final]] :
        u \in SessionUsers, slot \in BOOLEAN, strict \in BOOLEAN,
        k \in 0..MostToolVariants, retry \in ToolRetryResponses, final \in ToolFailures }
    \cup
    { [fn |-> "_tool_need_preflight", done |-> FALSE, out |-> <<>>,
       args |-> [session_user |-> u, slot |-> slot, require_strict_json |-> strict,
                 k |-> k, retry |-> RejectedField, final |-> final]] :
        u \in SessionUsers, slot \in BOOLEAN, strict \in BOOLEAN,
        k \in 0..1, final \in ToolCompletions }

RunCalls ==
    { [fn |-> "conversation.run", done |-> FALSE, out |-> <<>>,
       args |-> [first |-> first, rest |-> rest, ticks |-> ticks]] :
        first \in RunOutcomes, rest \in RunOutcomes, ticks \in 0..MaxRunTicks }

\* ids an endpoint may list: those of RawIds, the fixed default, a respelling
\* of m1, another provider's spelling of it, and a second model
ListedIds ==
    RawIds \cup { DEFAULT_OPENHANDS_MODEL, <<"M1">>, <<"ollama", "m1">>, <<"m2">> }

\* _discover_available_models returns distinct ids (line 1060 / 1071)
ListedLists ==
    UNION { { s \in [1..n -> ListedIds] : \A i, j \in 1..n : i # j => s[i] # s[j] }
            : n \in 0..MaxDiscovered }

\* the configured model as _resolve_llm_config passes it on: unset, or
\* stripped and provider-qualified (line 1177)
PickCalls ==
    { [fn |-> "_pick_configured_or_available_model", done |-> FALSE, out |-> <<>>,
       args |-> [configured_model |-> c, available_models |-> l]] :
        c \in { <<>>, <<"openai", "m1">>, <<"ollama", "M1">>, <<"openai", "m3">>,
                <<"openai", "local-model">> },
        l \in ListedLists }

\* base URLs as _resolve_llm_config hands them on: unset, ending in /v1, other
ProbeBaseUrls == BaseUrls \cup {"http://gateway.example/llm"}

\* what urlopen does with one probe: a response, an HTTPError, or another
\* exception (refused connection, socket timeout, unusable URL)
ProbeAnswers ==
    { [kind |-> "status", code |-> 200, text |-> <<>>],
      [kind |-> "http", code |-> 401, text |-> <<>>],
      [kind |-> "http", code |-> 500, text |-> <<>>],
      [kind |-> "neterr", code |-> 0, text |-> <<"connection refused">>],
      [kind |-> "timeout", code |-> 0, text |-> <<"timed out">>],
      [kind |-> "neterr", code |-> 0, text |-> <<"unknown url type">>] }

\* _llm_probe_urls always returns three urls
ProbeUrlCount == 3

ReachableCalls ==
    { [fn |-> "_llm_endpoint_reachable", done |-> FALSE, out |-> <<>>,
       args |-> [base_url |-> b, model |-> m, server |-> sv]] :
        b \in ProbeBaseUrls, m \in { <<"openai", "m1">>, <<"ollama", "m1">> },
        sv \in [1..ProbeUrlCount -> ProbeAnswers] }

\* WORKERPALS_LLM_BACKEND: unset, the values the code knows (in any case),
\* and a value it does not know
BackendSettings ==
    { "", "ollama", "ollama_chat", "OLLAMA", "lmstudio", "LMStudio", "openai",
      "openai_compatible", "vllm" }

\* WORKERPALS_LLM_ENDPOINT as set by the operator
RawBaseUrls ==
    { "", "http://localhost:1234/v1", "http://localhost:11434",
      "http://ollama.example:11434/v1" }

InferCalls ==
    { [fn |-> "_infer_litellm_provider", done |-> FALSE, out |-> "",
       args |-> [backend |-> b, base_url |-> u]] :
        b \in BackendSettings, u \in RawBaseUrls }

\* raw values of the endpoint URL setting handed to _normalize_base_url
RawUrls ==
    {<<>>, <<" ">>}
        \cup { <<"http://h">> \o t :
                 t \in UNION { [1..n -> {"/v1", "/", "/chat/completions", "/api/chat", " "}]
                                 : n \in 0..MaxUrlPieces } }

NormalizeUrlCalls ==
    { [fn |-> "_normalize_base_url", done |-> FALSE, out |-> <<>>,
       args |-> [raw |-> u]] : u \in RawUrls }

\* model names handed to _normalize_litellm_model, with the provider
\* _infer_litellm_provider resolved (or none)
RawModelNames ==
    UNION { [1..n -> {"openai", "OpenAI", "openai ", "ollama", "org", "m1", " m1 ",
                      "m1 ", " m1", "", "   "}] : n \in 0..MaxNameSegments }

NormalizeModelCalls ==
    { [fn |-> "_normalize_litellm_model", done |-> FALSE, out |-> <<>>,
       args |-> [model |-> m, provider |-> p]] :
        m \in RawModelNames, p \in {"openai", "ollama", ""} }

\* the settings _session_hint_body_variants is called under
VariantCalls ==
    { [fn |-> "_session_hint_body_variants", done |-> FALSE, out |-> <<>>,
       args |-> [provider |-> p, session_user |-> u, slot |-> slot]] :
        p \in {"openai", "ollama"}, u \in SessionUsers, slot \in BOOLEAN }

\* failed_model: the active model whose load failed
FallbackCalls ==
    { [fn |-> "_fallback_models_after_load_failure", done |-> FALSE, out |-> <<>>,
       args |-> [available_models |-> l, failed_model |-> f]] :
        l \in ListedLists,
        f \in { <<"openai", "m1">>, <<"m2">>, DEFAULT_OPENHANDS_MODEL,
                <<"ollama", "local-model">> } }

\* -------------------------------------------------------------------- state
VARIABLES
    pc,                     \* position in main() and _run_agentic_task_execute
    provider,               \* _infer_litellm_provider(base_url)
    base_url,               \* resolved endpoint
    tool_preflight_enabled, \* _tool_preflight_enabled()
    models_to_try,          \* the candidate queue
    attempted_models,
    preflight_failures,     \* <<model, detail>> entries
    last_error_text,
    active_model,
    result,                 \* the dict returned, or NoResult
    \* history of the calls made, for stating the properties
    preflightLog,           \* the _llm_model_chat_preflight calls and their outcome
    classifierLog,          \* the _tool_need_preflight calls and their outcome
    agentLog,               \* models for which LLM(...) / Agent(...) was constructed
    runLog,                 \* models for which conversation.send_message ran
    failureLog,             \* every failed preflight (with the body of the HTTP
                            \* error answered) and every exception raised
    discoverCalls,          \* calls of _discover_available_models
    lastStep,               \* what the last step did
    call,                   \* a helper applied on its own: its arguments and outcome
    proc                    \* main(): the result lines written to standard output,
                            \* whether it returned, and its return value

vars == <<pc, provider, base_url, tool_preflight_enabled, models_to_try,
          attempted_models, preflight_failures, last_error_text, active_model,
          result, preflightLog, classifierLog, agentLog, runLog, failureLog,
          discoverCalls, lastStep, call, proc>>

NoResult == [none |-> TRUE]
NoModel == <<>>
NoCall == [fn |-> "none"]
NoPayload == [argv |-> "none"]
NoShared == [url |-> "", health |-> "none"]
NoProc ==
    [emitted |-> <<>>, returned |-> FALSE, status |-> 0, servers |-> <<>>,
     payload |-> NoPayload, shared |-> NoShared]

Step(kind, model, detail, discovered, appended) ==
    [kind |-> kind, model |-> model, detail |-> detail,
     discovered |-> discovered, appended |-> appended]

\* ---------------------------------------------------------------- main()
\* str.strip() on the instruction
StripTok(t) ==
    CASE t = "   " -> ""
      [] OTHER -> t

\* the job payload handed over in sys.argv[1]
ValidPayload ==
    [argv |-> "given", decodes |-> TRUE, kind |-> "task.execute",
     params_is_object |-> TRUE, repo |-> "/repo", instruction |-> "fix the bug",
     lane |-> "openhands"]

MainPayloads ==
    { ValidPayload,
      [ValidPayload EXCEPT !.argv = "missing"],
      [ValidPayload EXCEPT !.decodes = FALSE],
      [ValidPayload EXCEPT !.kind = ""],
      [ValidPayload EXCEPT !.kind = "shell.exec"],
      [ValidPayload EXCEPT !.params_is_object = FALSE],
      [ValidPayload EXCEPT !.repo = ""],
      [ValidPayload EXCEPT !.instruction = ""],
      [ValidPayload EXCEPT !.instruction = "   "],
      [ValidPayload EXCEPT !.lane = ""],
      [ValidPayload EXCEPT !.lane = "Deterministic"],
      [ValidPayload EXCEPT !.lane = "fast"] }

\* the result dict built but never written
_fail_without_emit(summary, stderr, exit_code) ==
    [emitted |-> <<>>, returned |-> TRUE, status |-> exit_code, servers |-> <<>>,
     payload |-> NoPayload, shared |-> NoShared]

\* _fail: one result line written by _emit, exit_code returned (lines 131-139)
_fail(summary, stderr, exit_code) ==
    [emitted |-> << [ok |-> FALSE, summary |-> summary, stderr |-> stderr,
                     exitCode |-> exit_code] >>,
     returned |-> TRUE, status |-> exit_code, servers |-> <<>>,
     payload |-> NoPayload, shared |-> NoShared]

\* the lane taken as it is spelled: neither stripped, lowered nor checked
MainCheckLaneUnchecked(p) ==
    LET stop(summary) == [next |-> "exit", summary |-> summary]
    IN IF p.argv = "missing" THEN stop("Missing base64 job payload")
       ELSE IF ~p.decodes THEN stop("Failed to decode job payload")
       ELSE IF p.kind = "" THEN stop("Invalid payload: missing 'kind'")
       ELSE IF ~p.params_is_object
       THEN stop("Invalid payload: 'params' must be an object")
       ELSE IF p.repo = "" THEN stop("Invalid payload: missing 'repo'")
       ELSE IF p.kind # "task.execute" THEN stop("Unsupported job kind")
       ELSE IF StripTok(p.instruction) = ""
       THEN stop("task.execute requires 'instruction'")
       ELSE [next |-> IF p.lane = "openhands" THEN "start" ELSE "deterministic",
             summary |-> ""]

\* lines 2175-2209: where main() goes with a payload, and the summary of the
\* failure it reports when it goes no further
MainCheck(p) ==
    LET stop(summary) == [next |-> "exit", summary |-> summary]
        lane == LowerTok(IF p.lane = "" THEN "openhands" ELSE p.lane)
    IN IF p.argv = "missing" THEN stop("Missing base64 job payload")
       ELSE IF ~p.decodes THEN stop("Failed to decode job payload")
       ELSE IF p.kind = "" THEN stop("Invalid payload: missing 'kind'")
       ELSE IF ~p.params_is_object
       THEN stop("Invalid payload: 'params' must be an object")
       ELSE IF p.repo = "" THEN stop("Invalid payload: missing 'repo'")
       ELSE IF p.kind # "task.execute" THEN stop("Unsupported job kind")
       ELSE IF StripTok(p.instruction) = ""
       THEN stop("task.execute requires 'instruction'")
       ELSE IF lane \notin {"openhands", "deterministic"}
       THEN stop("task.execute requires lane='openhands' or lane='deterministic'")
       ELSE [next |-> IF lane = "openhands" THEN "start" ELSE "deterministic",
             summary |-> ""]

\* lines 2174-2209: argument and payload validation, choice of the lane; the
\* payload is what the process was started with (sys.argv)
MainValidate ==
    /\ pc = "main"
    /\ LET c == MainCheck(proc.payload)
       IN /\ pc' = c.next
          /\ proc' = IF c.next = "exit"
                     THEN [_fail(c.summary, <<>>, 2) EXCEPT !.payload = proc.payload]
                     ELSE NoProc
    /\ UNCHANGED <<provider, base_url, tool_preflight_enabled, models_to_try,
                   attempted_models, preflight_failures, last_error_text,
                   active_model, result, preflightLog, classifierLog, agentLog,
                   runLog, failureLog, discoverCalls, lastStep, call>>

\* every failure returned with status 1
AgenticExitStatusAlwaysOne(r) == IF r.ok THEN 0 ELSE 1

\* line 2212: 0 if bool(result.get("ok")) else _to_int(result.get("exitCode"), 1)
AgenticExitStatus(r) == IF r.ok THEN 0 ELSE r.exitCode

\* lines 2210-2212: as soon as _run_agentic_task_execute returns, main() writes
\* the returned dict as one result line and returns itself
MainReturn ==
    proc' = IF pc' = "done"
            THEN [emitted |-> Append(proc.emitted, result'), returned |-> TRUE,
                  status |-> AgenticExitStatus(result'), servers |-> <<>>,
                  payload |-> NoPayload, shared |-> NoShared]
            ELSE proc

\* exit codes of the command run in the workspace, as _parse_workspace_result
\* returns them: deterministic_ops.py ends with 0 or 2, an uncaught exception
\* or SystemExit(text) gives 1, a missing interpreter 127
CommandExitCodes == {0, 1, 2, 127}

\* what _execute_with_server does: it raises, or the command ran
ExecOutcomes ==
    { [kind |-> "raises", text |-> <<t>>, exit_code |-> 1] :
        t \in {"Connection refused", "connection refused", "boom"} }
    \cup { [kind |-> "ran", text |-> <<>>, exit_code |-> e] : e \in CommandExitCodes }

\* line 2255: the (case-sensitive) test for a refused connection
RefusedByServer(text) ==
    \E i \in 1..Len(text) : text[i] \in {"Connection refused", "[Errno 111]"}

\* _agent_server_is_healthy: status 200 and nothing else
_agent_server_is_healthy(server_url, answer) == server_url # "" /\ answer = "200"

\* lines 2233-2236
PreferReusable(reusable_server, answer) ==
    reusable_server # "" /\ _agent_server_is_healthy(reusable_server, answer)

\* a second attempt after any error of the shared server
RetriesOnManagedAfterAnyError(prefer_reusable, first) ==
    prefer_reusable /\ first.kind = "raises"

\* lines 2249-2262: the shared attempt raised and the text of the exception
\* names a refused connection, so a per-job server is started
RetriesOnManaged(prefer_reusable, first) ==
    prefer_reusable /\ first.kind = "raises" /\ RefusedByServer(first.text)

\* lines 2248-2265: the shared agent server is tried first when it is set and
\* healthy, and a per-job server after it refused the connection
ExecuteOutcome(prefer_reusable, first, second) ==
    IF RetriesOnManaged(prefer_reusable, first) THEN second ELSE first

\* the servers _execute_with_server was called with, in order, and what each
\* call did
ServersUsed(prefer_reusable, first, second) ==
    IF ~prefer_reusable THEN << [server |-> "managed", outcome |-> first] >>
    ELSE IF RetriesOnManaged(prefer_reusable, first)
    THEN << [server |-> "shared", outcome |-> first],
            [server |-> "managed", outcome |-> second] >>
    ELSE << [server |-> "shared", outcome |-> first] >>

\* the result written, then 0 returned whatever the command's exit code
CommandResultReturnsZero(exit_code) ==
    [emitted |-> << [ok |-> exit_code = 0,
                     summary |-> "Executed task and wrote",
                     stdout |-> <<"command output">>,
                     stderr |-> <<>>,
                     exitCode |-> exit_code] >>,
     returned |-> TRUE,
     status |-> 0,
     servers |-> <<>>,
     payload |-> NoPayload, shared |-> NoShared]

\* lines 2280-2288: the result of a command that ran, and the return value
CommandResult(exit_code) ==
    [emitted |-> << [ok |-> exit_code = 0,
                     summary |-> "Executed task and wrote",
                     stdout |-> <<"command output">>,
                     stderr |-> <<>>,
                     exitCode |-> exit_code] >>,
     returned |-> TRUE,
     status |-> IF exit_code = 0 THEN 0 ELSE IF exit_code # 0 THEN exit_code ELSE 1,
     servers |-> <<>>,
     payload |-> NoPayload, shared |-> NoShared]

\* lines 2214-2288: the deterministic lane
DeterministicLane ==
    /\ pc = "deterministic"
    /\ pc' = "exit"
    /\ \E sdk_ok \in BOOLEAN, cmd_raises \in BOOLEAN,
          \* the shared agent server setting (_resolve_agent_server_url) and
          \* what the GET of its health URL does
          reusable_server \in {"", "http://agent-server:8000"},
          health \in {"200", "503", "raises"},
          first \in ExecOutcomes, second \in ExecOutcomes :
         LET prefer_reusable == PreferReusable(reusable_server, health)
             outcome == ExecuteOutcome(prefer_reusable, first, second)
             ended == IF outcome.kind = "raises"
                      THEN _fail("OpenHands execution failed for task.execute",
                                 outcome.text, 1)
                      ELSE CommandResult(outcome.exit_code)
         IN proc' =
              IF ~sdk_ok
              THEN _fail("OpenHands SDK is not available in worker runtime",
                         <<"No module named openhands">>, 3)
              ELSE IF cmd_raises THEN _fail("embedded null byte", <<>>, 2)
              ELSE [ended EXCEPT
                      !.servers = ServersUsed(prefer_reusable, first, second),
                      !.shared = [url |-> reusable_server,
                                  health |-> IF reusable_server = "" THEN "none"
                                             ELSE health]]
    /\ UNCHANGED <<provider, base_url, tool_preflight_enabled, models_to_try,
                   attempted_models, preflight_failures, last_error_text,
                   active_model, result, preflightLog, classifierLog, agentLog,
                   runLog, failureLog, discoverCalls, lastStep, call>>

Init ==
    /\ pc = "main"
    /\ proc \in { [NoProc EXCEPT !.payload = p] : p \in MainPayloads }
    /\ provider \in Providers
    /\ base_url \in BaseUrls
    /\ tool_preflight_enabled \in BOOLEAN
    /\ models_to_try = <<>>
    /\ attempted_models = <<>>
    /\ preflight_failures = <<>>
    /\ last_error_text = <<>>
    /\ active_model = NoModel
    /\ result = NoResult
    /\ preflightLog = <<>>
    /\ classifierLog = <<>>
    /\ agentLog = <<>>
    /\ runLog = <<>>
    /\ failureLog = <<>>
    /\ discoverCalls = 0
    /\ lastStep = Step("init", NoModel, <<>>, <<>>, <<>>)
    /\ call = NoCall

\* _resolve_llm_config, given the raw configured model and the discovered ids
_resolve_llm_config(raw_model, available_models) ==
    LET configured_model == _normalize_litellm_model(raw_model, provider)
        picked == _pick_configured_or_available_model(configured_model, available_models)
    IN _normalize_litellm_model(picked.model, provider)

\* lines 1526-1691: imports, configuration, reachability, queue seeding
Setup ==
    /\ pc = "start"
    /\ \E sdk_ok \in BOOLEAN, raw_model \in ConfiguredIds,
          discovered \in DiscoveryLists, api_key_set \in BOOLEAN,
          reachable \in BOOLEAN :
        LET available == IF base_url = "" THEN <<>> ELSE discovered
            model == _resolve_llm_config(raw_model, available)
            fail(summary, stderr, code) ==
                /\ result' = [ok |-> FALSE, summary |-> summary,
                              stderr |-> [lead |-> stderr], exitCode |-> code]
                /\ pc' = "done"
                /\ models_to_try' = models_to_try
        IN /\ (base_url = "" => discovered = <<>> /\ reachable)
           /\ discoverCalls' = IF sdk_ok THEN discoverCalls + 1 ELSE discoverCalls
           /\ lastStep' = Step("setup", model, <<>>, available, <<>>)
           /\ IF ~sdk_ok
              THEN fail("OpenHands agent mode unavailable in worker runtime",
                        <<"No module named openhands">>, 3)
              ELSE IF model = <<>>
              THEN fail("task.execute requires an LLM model for agentic execution", <<>>, 2)
              ELSE IF ~api_key_set /\ ~_looks_local_base_url(base_url)
              THEN fail("task.execute agent mode requires an API key", <<>>, 2)
              ELSE IF ~reachable
              THEN fail("OpenHands LLM endpoint is unreachable from worker runtime",
                        <<"Could not reach LLM endpoint">>, 2)
              ELSE /\ models_to_try' = <<model>>
                   /\ pc' = "loop"
                   /\ result' = result
    /\ UNCHANGED <<provider, base_url, tool_preflight_enabled, attempted_models,
                   preflight_failures, last_error_text, active_model,
                   preflightLog, classifierLog, agentLog, runLog, failureLog, call>>

\* the append forgotten: the popped model is not recorded
MarkAttemptedForgotten(attempted, model) == attempted

\* attempted_models.append(active_model)
MarkAttempted(attempted, model) == Append(attempted, model)

\* the embedding test left out
PopOutcomeNoEmbeddingTest(model, attempted) ==
    IF model \in Range(attempted) THEN "pop_skip_attempted" ELSE "pop"

\* the two `continue` tests at the head of the loop (lines 1695 and 1699)
PopOutcome(model, attempted) ==
    IF model \in Range(attempted) THEN "pop_skip_attempted"
    ELSE IF _is_embedding_model(model) THEN "pop_skip_embedding"
    ELSE "pop"

\* lines 1693-1704: pop the head of the queue, skip attempted and embedding ones
PopCandidate ==
    /\ pc = "loop"
    /\ models_to_try # <<>>
    /\ LET m == Head(models_to_try)
           outcome == PopOutcome(m, attempted_models)
       IN /\ models_to_try' = Tail(models_to_try)
          /\ active_model' = m
          /\ attempted_models' = IF outcome = "pop_skip_attempted" THEN attempted_models
                                 ELSE MarkAttempted(attempted_models, m)
          /\ pc' = IF outcome = "pop" THEN "preflight" ELSE "loop"
          /\ lastStep' = Step(outcome, m, <<>>, <<>>, <<>>)
    /\ UNCHANGED <<provider, base_url, tool_preflight_enabled, preflight_failures,
                   last_error_text, result, preflightLog,
                   classifierLog, agentLog, runLog, failureLog, discoverCalls, call>>

\* the new candidates put in front of the pending ones
ExtendQueueAtHead(queue, new_candidates) == new_candidates \o queue

\* models_to_try.extend(new_candidates)
ExtendQueue(queue, new_candidates) == queue \o new_candidates

\* the report built without the attempted-model list, as a generic failure
NoFallbackResultBare(summary, lead_text, attempted, probe_detail) ==
    [ok |-> FALSE, summary |-> summary,
     stderr |-> [lead |-> lead_text, attempted |-> <<>>, probe |-> probe_detail],
     exitCode |-> 1]

\* the dict returned at lines 1737-1746 and 1921-1930
NoFallbackResult(summary, lead_text, attempted, probe_detail) ==
    [ok |-> FALSE, summary |-> summary,
     stderr |-> [lead |-> lead_text, attempted |-> attempted, probe |-> probe_detail],
     exitCode |-> 2]

\* lines 1721-1746 and 1905-1930: re-discovery after a load failure of the
\* active model; the queue grows, or the execution ends with exit code 2
FallbackOrFail(kind, lead_text, summary) ==
  \E discovered \in DiscoveryLists :
    LET available == IF base_url = "" THEN <<>> ELSE discovered
        fallback_models == _fallback_models_after_load_failure(available, provider, active_model)
        probe_detail == ProbeDetail(base_url, available)
        new_candidates == NewCandidates(fallback_models, attempted_models, models_to_try)
    IN /\ (base_url = "" => discovered = <<>>)
       /\ discoverCalls' = discoverCalls + 1
       /\ IF new_candidates # <<>>
          THEN /\ models_to_try' = ExtendQueue(models_to_try, new_candidates)
               /\ pc' = "loop"
               /\ result' = result
               /\ lastStep' = Step(kind \o "_fallback", active_model, lead_text,
                                   available, new_candidates)
          ELSE /\ models_to_try' = models_to_try
               /\ pc' = "done"
               /\ result' = NoFallbackResult(summary, lead_text, attempted_models,
                                             probe_detail)
               /\ lastStep' = Step(kind \o "_no_fallback", active_model, lead_text,
                                   available, <<>>)

\* every failed preflight sent to re-discovery
PreflightAlwaysNeedsFallback(preflight_detail) == TRUE

\* the branch of line 1718 that sends a failed preflight to re-discovery
PreflightNeedsFallback(preflight_detail) ==
    \/ _is_model_load_failure(preflight_detail)
    \/ (Contains(preflight_detail, "model") /\ Contains(preflight_detail, "not found"))

\* lines 1706-1757: chat preflight of the active model and the handling of
\* its failure
ChatPreflight ==
    /\ pc = "preflight"
    /\ \E slot \in BOOLEAN, k \in 0..6, final \in FinalResponses :
        LET n == Len(_session_hint_body_variants(provider, StableSessionUser, slot))
            server == [i \in 1..n |-> IF i <= k THEN RejectedField ELSE final]
            pf == _llm_model_chat_preflight(base_url, provider, StableSessionUser,
                                            slot, model_probe_timeout_sec, server)
            \* the answer to the last request sent
            answered == IF pf.sent # <<>> /\ server[Len(pf.sent)].kind = "http"
                        THEN server[Len(pf.sent)] ELSE [body |-> <<>>]
        IN /\ k <= n
           /\ preflightLog' = Append(preflightLog, [model |-> active_model, ok |-> pf.ok])
           /\ failureLog' = IF pf.ok THEN failureLog
                            ELSE Append(failureLog, [model |-> active_model,
                                                     phase |-> "preflight",
                                                     text |-> pf.detail,
                                                     body |-> answered.body])
           /\ IF pf.ok
              THEN /\ pc' = IF tool_preflight_enabled THEN "tool_preflight" ELSE "agent"
                   /\ lastStep' = Step("preflight_ok", active_model, pf.detail, <<>>, <<>>)
                   /\ UNCHANGED <<models_to_try, preflight_failures, last_error_text,
                                  result, discoverCalls>>
              ELSE /\ preflight_failures' = Append(preflight_failures,
                                                   <<active_model, pf.detail>>)
                   \* f"{active_model}: {preflight_detail}"
                   /\ last_error_text' = active_model \o <<": ">> \o pf.detail
                   /\ IF PreflightNeedsFallback(pf.detail)
                      THEN FallbackOrFail("preflight", pf.detail,
                               "OpenHands model preflight failed and no fallback model succeeded")
                      ELSE /\ pc' = "loop"
                           /\ lastStep' = Step("preflight_transient", active_model,
                                               pf.detail, <<>>, <<>>)
                           /\ UNCHANGED <<models_to_try, result, discoverCalls>>
    /\ UNCHANGED <<provider, base_url, tool_preflight_enabled, attempted_models,
                   active_model, classifierLog, agentLog, runLog, call>>

\* a load failure handled like any other exception: no re-discovery
HandleExceptionNoFallback(err_text) ==
    /\ last_error_text' = err_text
    /\ failureLog' = Append(failureLog, [model |-> active_model, phase |-> "agent",
                                         text |-> err_text, body |-> <<>>])
    /\ pc' = "done"
    /\ lastStep' = Step("exc_terminal", active_model, err_text, <<>>, <<>>)
    /\ UNCHANGED <<models_to_try, discoverCalls>>
    /\ result' = [ok |-> FALSE,
                  summary |-> "OpenHands agent task execution failed",
                  stderr |-> [lead |-> err_text],
                  exitCode |-> 1]

\* an exception that is no load failure skips the model and the loop goes on
HandleExceptionKeepsGoing(err_text) ==
    /\ last_error_text' = err_text
    /\ failureLog' = Append(failureLog, [model |-> active_model, phase |-> "agent",
                                         text |-> err_text, body |-> <<>>])
    /\ IF _is_model_load_failure(err_text)
       THEN FallbackOrFail("exc", err_text,
                "OpenHands model failed to load and no fallback model succeeded")
       ELSE /\ pc' = "loop"
            /\ lastStep' = Step("exc_skipped", active_model, err_text, <<>>, <<>>)
            /\ UNCHANGED <<models_to_try, discoverCalls, result>>

\* lines 1899-1960: the handler of an exception raised in the agent phase
HandleException(err_text) ==
    /\ last_error_text' = err_text
    /\ failureLog' = Append(failureLog, [model |-> active_model, phase |-> "agent",
                                         text |-> err_text, body |-> <<>>])
    /\ IF _is_model_load_failure(err_text)
       THEN FallbackOrFail("exc", err_text,
                "OpenHands model failed to load and no fallback model succeeded")
       ELSE /\ pc' = "done"
            /\ lastStep' = Step("exc_terminal", active_model, err_text, <<>>, <<>>)
            /\ UNCHANGED <<models_to_try, discoverCalls>>
            /\ result' =
                 IF Contains(err_text, "connection error")
                    \/ Contains(err_text, "connection refused")
                 THEN [ok |-> FALSE,
                       summary |-> "OpenHands could not connect to the configured local LLM endpoint",
                       stderr |-> [lead |-> err_text, model |-> active_model,
                                   base_url |-> base_url],
                       exitCode |-> 2]
                 ELSE IF Contains(err_text, "cannot truncate prompt with n_keep")
                         /\ Contains(err_text, "n_ctx")
                 THEN [ok |-> FALSE,
                       summary |-> "OpenHands prompt exceeded LM Studio context window",
                       stderr |-> [lead |-> err_text],
                       exitCode |-> 2]
                 ELSE [ok |-> FALSE,
                       summary |-> "OpenHands agent task execution failed",
                       stderr |-> [lead |-> err_text],
                       exitCode |-> 1]

\* the hard_fail test left out
ToolDecisionOutcomeIgnoresHardFail(decision) ==
    IF ~decision.needs_tools THEN "short_circuit" ELSE "agent"

\* what the caller does with the classifier's decision (lines 1792 and 1804)
ToolDecisionOutcome(decision) ==
    IF decision.hard_fail THEN "hard_fail"
    ELSE IF ~decision.needs_tools THEN "short_circuit"
    ELSE "agent"

\* the parse failure reported as a generic execution failure
HardFailResultGeneric(decision) ==
    [ok |-> FALSE,
     summary |-> "OpenHands agent task execution failed",
     stderr |-> [reason |-> decision.why, detail |-> decision.error],
     exitCode |-> 1]

\* the dict returned at lines 1794-1803
HardFailResult(decision) ==
    [ok |-> FALSE,
     summary |-> "Tool preflight returned non-JSON response",
     stderr |-> [reason |-> IF decision.why # "" THEN decision.why ELSE "parse failed",
                 detail |-> IF decision.error # "" THEN decision.error ELSE "(none)"],
     exitCode |-> 2]

\* the answer built from the plan alone, the reason dropped
ShortCircuitResultPlanOnly(decision) ==
    [ok |-> TRUE,
     summary |-> "Preflight handled request without repository tools",
     stdout |-> IF decision.plan # "" THEN <<"Plan", decision.plan>>
                ELSE <<"No repository tools required.">>,
     stderr |-> [lead |-> <<>>],
     exitCode |-> 0]

\* the dict returned at lines 1805-1818
ShortCircuitResult(decision) ==
    LET plan_lines == (IF decision.why # "" THEN <<"Reason", decision.why>> ELSE <<>>)
                      \o (IF decision.plan # "" THEN <<"Plan", decision.plan>> ELSE <<>>)
    IN [ok |-> TRUE,
        summary |-> "Preflight handled request without repository tools",
        stdout |-> IF plan_lines # <<>> THEN plan_lines
                   ELSE <<"No repository tools required.">>,
        stderr |-> [lead |-> <<>>],
        exitCode |-> 0]

\* lines 1759-1826: the tool-need classifier call and the use of its decision
ToolPreflight ==
    /\ pc = "tool_preflight"
    /\ \E override \in {<<>>, <<"text-embedding-3">>},
          raises \in BOOLEAN, decision \in ToolDecisions :
        LET preflight_model == IF override # <<>>
                               THEN _normalize_litellm_model(override, provider)
                               ELSE active_model
        IN /\ preflight_model # <<>>
           /\ (base_url = "" => decision = ToolDecisionFailOpen /\ ~raises)
           /\ (raises => decision = ToolDecisionFailOpen)
           /\ classifierLog' = Append(classifierLog,
                                      [model |-> active_model, returned |-> ~raises,
                                       needs_tools |-> decision.needs_tools,
                                       hard_fail |-> decision.hard_fail])
           /\ IF raises
              THEN HandleException(<<"boom">>)
              ELSE IF ToolDecisionOutcome(decision) = "hard_fail"
              THEN /\ pc' = "done"
                   /\ result' = HardFailResult(decision)
                   /\ lastStep' = Step("tool_hard_fail", active_model,
                                       <<decision.why, decision.error>>, <<>>, <<>>)
                   /\ UNCHANGED <<models_to_try, last_error_text, discoverCalls,
                                  failureLog>>
              ELSE IF ToolDecisionOutcome(decision) = "short_circuit"
              THEN /\ pc' = "done"
                   /\ result' = ShortCircuitResult(decision)
                   /\ lastStep' = Step("tool_short_circuit", active_model,
                                       <<decision.why, decision.plan>>, <<>>, <<>>)
                   /\ UNCHANGED <<models_to_try, last_error_text, discoverCalls,
                                  failureLog>>
              ELSE /\ pc' = "agent"
                   /\ lastStep' = Step("tool_needs_tools", active_model, <<>>, <<>>, <<>>)
                   /\ UNCHANGED <<models_to_try, last_error_text, discoverCalls, result,
                                  failureLog>>
    /\ UNCHANGED <<provider, base_url, tool_preflight_enabled, attempted_models,
                   preflight_failures, active_model, preflightLog, agentLog, runLog, call>>

\* lines 1828-1898: build the agent, send the message, run, summarize
RunAgent ==
    /\ pc = "agent"
    /\ \E outcome \in {"construct_raises", "run_raises", "completes"},
          err_text \in ErrTexts, changed \in BOOLEAN :
        /\ (outcome = "completes" => err_text = <<"boom">>)
        /\ (outcome # "completes" => ~changed)
        /\ agentLog' = Append(agentLog, active_model)
        /\ runLog' = IF outcome = "construct_raises" THEN runLog
                     ELSE Append(runLog, active_model)
        /\ IF outcome = "completes"
           THEN /\ pc' = "done"
                /\ result' = [ok |-> TRUE,
                              summary |-> IF changed THEN "Executed task and modified file(s)"
                                          ELSE "Executed task via OpenHands agent (no file changes detected)",
                              stdout |-> IF changed THEN <<"Changed files">>
                                         ELSE <<"No modified files were detected after execution.">>,
                              stderr |-> [lead |-> <<>>],
                              exitCode |-> 0]
                /\ lastStep' = Step("run_ok", active_model, <<>>, <<>>, <<>>)
                /\ UNCHANGED <<models_to_try, last_error_text, discoverCalls, failureLog>>
           ELSE HandleException(err_text)
    /\ UNCHANGED <<provider, base_url, tool_preflight_enabled, attempted_models,
                   preflight_failures, active_model, preflightLog, classifierLog, call>>

\* s[-n:]
LastN(s, n) == SubSeq(s, IF Len(s) > n THEN Len(s) - n + 1 ELSE 1, Len(s))

\* the report keeping only the most recent preflight failure
ExhaustedResultLastFailureOnly(attempted, failures, last_error) ==
    [ok |-> FALSE,
     summary |-> "OpenHands model selection exhausted with no successful execution",
     stderr |-> [attempted |-> attempted,
                 preflight_failures |-> LastN(failures, 1),
                 last_error |-> last_error],
     exitCode |-> 2]

\* the dict returned at lines 1962-1977
ExhaustedResult(attempted, failures, last_error) ==
    [ok |-> FALSE,
     summary |-> "OpenHands model selection exhausted with no successful execution",
     stderr |-> [attempted |-> attempted,
                 preflight_failures |-> LastN(failures, ReportedPreflightFailures),
                 last_error |-> last_error],
     exitCode |-> 2]

\* lines 1962-1977: the queue ran empty
Exhausted ==
    /\ pc = "loop"
    /\ models_to_try = <<>>
    /\ pc' = "done"
    /\ result' = ExhaustedResult(attempted_models, preflight_failures, last_error_text)
    /\ lastStep' = Step("exhausted", NoModel, <<>>, <<>>, <<>>)
    /\ UNCHANGED <<provider, base_url, tool_preflight_enabled, models_to_try,
                   attempted_models, preflight_failures, last_error_text,
                   active_model, preflightLog, classifierLog, agentLog, runLog,
                   failureLog, discoverCalls, call>>

Next ==
    \/ MainValidate
    \/ DeterministicLane
    \/ (Setup /\ MainReturn)
    \/ (PopCandidate /\ MainReturn)
    \/ (ChatPreflight /\ MainReturn)
    \/ (ToolPreflight /\ MainReturn)
    \/ (RunAgent /\ MainReturn)
    \/ (Exhausted /\ MainReturn)

Spec == Init /\ [][Next]_vars

\* line 1693: main is at `while models_to_try:` and a candidate is pending
AtPop == pc = "loop" /\ models_to_try # <<>>

\* line 1694: what the pop of a candidate does to the queue
PopHead == AtPop /\ models_to_try' = Tail(models_to_try)

\* what every other statement of main does: control moves on
Advance ==
    /\ pc \notin {"done", "exit"}
    /\ ~AtPop
    /\ pc' \in {"deterministic", "start", "loop", "preflight", "tool_preflight",
                "agent", "done", "exit"}

\* main() is one sequential process: whenever it has a next statement it
\* executes it, and every call it makes returns or raises. This is weak
\* fairness of Next, stated over what a statement does to the queue (a pop)
\* or to the program counter (any other statement)
FairSpec == Spec /\ WF_models_to_try(PopHead) /\ WF_pc(Advance)

\* ------------------------------------------------ the helpers on their own
\* the configuration of Init, and one helper call about to be made
InitHelper ==
    /\ pc = "helper"
    /\ proc = NoProc
    /\ provider \in Providers
    /\ base_url \in BaseUrls
    /\ tool_preflight_enabled \in BOOLEAN
    /\ models_to_try = <<>>
    /\ attempted_models = <<>>
    /\ preflight_failures = <<>>
    /\ last_error_text = <<>>
    /\ active_model = NoModel
    /\ result = NoResult
    /\ preflightLog = <<>>
    /\ classifierLog = <<>>
    /\ agentLog = <<>>
    /\ runLog = <<>>
    /\ failureLog = <<>>
    /\ discoverCalls = 0
    /\ lastStep = Step("init", NoModel, <<>>, <<>>, <<>>)
    /\ call \in ChatCalls \cup ToolCalls \cup RunCalls \cup FallbackCalls
                \cup PickCalls \cup ReachableCalls \cup InferCalls
                \cup NormalizeUrlCalls \cup NormalizeModelCalls
                \cup VariantCalls

HelperUnchanged ==
    UNCHANGED <<pc, provider, base_url, tool_preflight_enabled, models_to_try,
                attempted_models, preflight_failures, last_error_text, active_model,
                result, preflightLog, classifierLog, agentLog, runLog, failureLog,
                discoverCalls, lastStep, proc>>

\* the endpoint that answers `retry` to the first k requests and `final` to
\* every later one
ServerOf(args, n) == [i \in 1..n |-> IF i <= args.k THEN args.retry ELSE args.final]

CallChatPreflight ==
    /\ pc = "helper"
    /\ call.fn = "_llm_model_chat_preflight"
    /\ ~call.done
    /\ LET a == call.args
           n == Len(_session_hint_body_variants(provider, a.session_user, a.slot))
       IN call' = [call EXCEPT !.done = TRUE,
                               !.out = _llm_model_chat_preflight(
                                           base_url, provider, a.session_user, a.slot,
                                           a.timeout, ServerOf(a, n))]
    /\ HelperUnchanged

CallToolNeedPreflight ==
    /\ pc = "helper"
    /\ call.fn = "_tool_need_preflight"
    /\ ~call.done
    /\ LET a == call.args
           n == Len(ToolBodyVariants(provider, a.session_user, a.slot))
       IN call' = [call EXCEPT !.done = TRUE,
                               !.out = _tool_need_preflight(
                                           tool_preflight_enabled, provider,
                                           a.session_user, a.slot,
                                           a.require_strict_json, ServerOf(a, n))]
    /\ HelperUnchanged

CallConversationRun ==
    /\ pc = "helper"
    /\ call.fn = "conversation.run"
    /\ ~call.done
    /\ call' = [call EXCEPT !.done = TRUE,
                            !.out = ConversationRun(call.args.first, call.args.rest)]
    /\ HelperUnchanged

CallFallbackModels ==
    /\ pc = "helper"
    /\ call.fn = "_fallback_models_after_load_failure"
    /\ ~call.done
    /\ call' = [call EXCEPT !.done = TRUE,
                            !.out = _fallback_models_after_load_failure(
                                        call.args.available_models, provider,
                                        call.args.failed_model)]
    /\ HelperUnchanged

CallPickModel ==
    /\ pc = "helper"
    /\ call.fn = "_pick_configured_or_available_model"
    /\ ~call.done
    /\ call' = [call EXCEPT !.done = TRUE,
                            !.out = _pick_configured_or_available_model(
                                        call.args.configured_model,
                                        call.args.available_models)]
    /\ HelperUnchanged

CallEndpointReachable ==
    /\ pc = "helper"
    /\ call.fn = "_llm_endpoint_reachable"
    /\ ~call.done
    /\ call' = [call EXCEPT !.done = TRUE,
                            !.out = _llm_endpoint_reachable(
                                        call.args.base_url, call.args.model,
                                        call.args.server)]
    /\ HelperUnchanged

CallInferProvider ==
    /\ pc = "helper"
    /\ call.fn = "_infer_litellm_provider"
    /\ ~call.done
    /\ call' = [call EXCEPT !.done = TRUE,
                            !.out = _infer_litellm_provider(call.args.backend,
                                                            call.args.base_url)]
    /\ HelperUnchanged

CallNormalizeBaseUrl ==
    /\ pc = "helper"
    /\ call.fn = "_normalize_base_url"
    /\ ~call.done
    /\ call' = [call EXCEPT !.done = TRUE,
                            !.out = _normalize_base_url(call.args.raw)]
    /\ HelperUnchanged

CallNormalizeModel ==
    /\ pc = "helper"
    /\ call.fn = "_normalize_litellm_model"
    /\ ~call.done
    /\ call' = [call EXCEPT !.done = TRUE,
                            !.out = _normalize_litellm_model(call.args.model,
                                                             call.args.provider)]
    /\ HelperUnchanged

CallBodyVariants ==
    /\ pc = "helper"
    /\ call.fn = "_session_hint_body_variants"
    /\ ~call.done
    /\ call' = [call EXCEPT !.done = TRUE,
                            !.out = _session_hint_body_variants(
                                        call.args.provider, call.args.session_user,
                                        call.args.slot)]
    /\ HelperUnchanged

NextHelper ==
    \/ CallChatPreflight
    \/ CallToolNeedPreflight
    \/ CallConversationRun
    \/ CallFallbackModels
    \/ CallPickModel
    \/ CallEndpointReachable
    \/ CallInferProvider
    \/ CallNormalizeBaseUrl
    \/ CallNormalizeModel
    \/ CallBodyVariants

HelperSpec == InitHelper /\ [][NextHelper]_vars

\* ------------------------------------------------- deterministic_ops.py
\* A path is the sequence of its components below "/" (<<>> is "/" itself);
\* the filesystem is the set of its entries [path, kind, data]: directories,
\* files (data: the content, as tokens) and symbolic links (data: the
\* absolute path the link points to).

\* _repo_root(payload): the resolved repository root
RepoRoot == <<"repo">>

DEFAULT_TASK_SUMMARY_FILENAME == "task_summary.md"

\* the entry at path p; kind "none" when nothing is there
Node(fs, p) ==
    IF p = <<>> THEN [path |-> p, kind |-> "dir", data |-> <<>>]
    ELSE IF \E e \in fs : e.path = p THEN CHOOSE e \in fs : e.path = p
    ELSE [path |-> p, kind |-> "none", data |-> <<>>]

\* root in path.parents or path == root
Under(root, p) == Len(root) <= Len(p) /\ SubSeq(p, 1, Len(root)) = root

\* Path.resolve(): ".." steps to the parent of what was resolved so far, a
\* symbolic link is replaced by the path it points to, a missing component is
\* kept as it is
RECURSIVE ResolveFrom(_, _, _)
ResolveFrom(fs, cur, parts) ==
    IF parts = <<>> THEN cur
    ELSE IF Head(parts) = ".."
    THEN ResolveFrom(fs, SubSeq(cur, 1, Len(cur) - 1), Tail(parts))
    ELSE LET nxt == Append(cur, Head(parts))
         IN IF Node(fs, nxt).kind = "link"
            THEN ResolveFrom(fs, <<>>, Node(fs, nxt).data \o Tail(parts))
            ELSE ResolveFrom(fs, nxt, Tail(parts))

\* lines 60-65
_resolve_in_repo(fs, repo_root, raw_path) ==
    LET path == ResolveFrom(fs, IF raw_path.absolute THEN <<>> ELSE repo_root,
                            raw_path.parts)
    IN [refused |-> ~Under(repo_root, path), path |-> path]

\* lines 68-79, after the containment test of line 69; a name of the model
\* has a suffix when it is a.txt or task_summary.md
_resolve_task_summary_target(fs, target, raw_target_path) ==
    IF \/ Node(fs, target).kind = "dir"
       \/ raw_target_path.dirlike
       \/ target = <<>>
       \/ target[Len(target)] \notin {"a.txt", DEFAULT_TASK_SUMMARY_FILENAME}
    THEN Append(target, DEFAULT_TASK_SUMMARY_FILENAME)
    ELSE target

\* path.mkdir(parents=True, exist_ok=True): every missing directory down to
\* p is created; a file in the way raises
Mkdirs(fs, p) ==
    LET prefixes == { SubSeq(p, 1, n) : n \in 1..Len(p) }
    IN IF \E q \in prefixes : Node(fs, q).kind \notin {"none", "dir"}
       THEN [status |-> "error", fs |-> fs]
       ELSE [status |-> "ok",
             fs |-> fs \cup { [path |-> q, kind |-> "dir", data |-> <<>>] :
                                q \in {r \in prefixes : Node(fs, r).kind = "none"} }]

\* open(p, "w") or open(p, "a") and a write: a symbolic link at p is followed
WriteThrough(fs, p, content, append) ==
    LET real == IF Node(fs, p).kind = "link"
                THEN ResolveFrom(fs, <<>>, Node(fs, p).data) ELSE p
        old == IF append /\ Node(fs, real).kind = "file" THEN Node(fs, real).data
               ELSE <<>>
    IN IF \/ real = <<>>
          \/ Node(fs, real).kind = "dir"
          \/ Node(fs, SubSeq(real, 1, Len(real) - 1)).kind # "dir"
       THEN [status |-> "error", fs |-> fs]
       ELSE [status |-> "ok",
             fs |-> {e \in fs : e.path # real}
                      \cup {[path |-> real, kind |-> "file", data |-> old \o content]}]

\* lines 176-198; the text _build_repo_summary returns is one token
_op_task_summary(fs, payload) ==
    IF ~payload.has_target THEN [status |-> "ok", fs |-> fs]
    ELSE LET r == _resolve_in_repo(fs, RepoRoot, payload.path)
             target == _resolve_task_summary_target(fs, r.path, payload.path)
             made == Mkdirs(fs, SubSeq(target, 1, Len(target) - 1))
         IN IF r.refused THEN [status |-> "refused", fs |-> fs]
            ELSE IF made.status # "ok" THEN made
            ELSE WriteThrough(made.fs, target, <<"# Repository Architecture">>, FALSE)

\* lines 201-208
_op_file_write(fs, payload) ==
    LET r == _resolve_in_repo(fs, RepoRoot, payload.path)
        made == Mkdirs(fs, SubSeq(r.path, 1, Len(r.path) - 1))
    IN IF r.refused THEN [status |-> "refused", fs |-> fs]
       ELSE IF made.status # "ok" THEN made
       ELSE WriteThrough(made.fs, r.path, payload.content, FALSE)

\* lines 211-221
_op_file_patch(fs, payload) ==
    LET r == _resolve_in_repo(fs, RepoRoot, payload.path)
        current == Node(fs, r.path).data
        hits == {i \in 1..Len(current) : current[i] = payload.old_text}
        first == CHOOSE i \in hits : \A j \in hits : i <= j
    IN IF r.refused THEN [status |-> "refused", fs |-> fs]
       ELSE IF Node(fs, r.path).kind # "file" \/ hits = {}
       THEN [status |-> "error", fs |-> fs]
       ELSE WriteThrough(fs, r.path, [current EXCEPT ![first] = payload.new_text], FALSE)

\* shutil.move(src, dst): into dst when dst is a directory, where nothing of
\* that name may exist (os.path.exists follows a link); a directory is moved
\* neither into itself nor onto anything that is there
Move(fs, src, dst) ==
    LET real_dst == IF Node(fs, dst).kind = "dir" THEN Append(dst, src[Len(src)])
                    ELSE dst
        there == Node(fs, real_dst)
        exists == IF there.kind = "link"
                  THEN Node(fs, ResolveFrom(fs, <<>>, there.data)).kind # "none"
                  ELSE there.kind # "none"
        rest == {e \in fs : e.path # real_dst}
    IN IF src = dst THEN [status |-> "ok", fs |-> fs]
       ELSE IF \/ Node(fs, dst).kind = "dir" /\ exists
               \/ Node(fs, src).kind = "none"
               \/ Under(src, real_dst)
               \/ Node(fs, src).kind = "dir" /\ there.kind # "none"
               \/ Node(fs, SubSeq(real_dst, 1, Len(real_dst) - 1)).kind # "dir"
       THEN [status |-> "error", fs |-> fs]
       ELSE [status |-> "ok",
             fs |-> {e \in rest : ~Under(src, e.path)}
                      \cup { [e EXCEPT !.path = real_dst
                                         \o SubSeq(e.path, Len(src) + 1, Len(e.path))] :
                               e \in {x \in rest : Under(src, x.path)} }]

\* lines 224-230
_op_file_rename(fs, payload) ==
    LET src == _resolve_in_repo(fs, RepoRoot, payload.path)
        dst == _resolve_in_repo(fs, RepoRoot, payload.to)
        made == Mkdirs(fs, SubSeq(dst.path, 1, Len(dst.path) - 1))
    IN IF src.refused \/ dst.refused THEN [status |-> "refused", fs |-> fs]
       ELSE IF made.status # "ok" THEN made
       ELSE Move(made.fs, src.path, dst.path)

\* lines 233-241: shutil.rmtree of a directory, unlink of anything else
_op_file_delete(fs, payload) ==
    LET r == _resolve_in_repo(fs, RepoRoot, payload.path)
    IN IF r.refused THEN [status |-> "refused", fs |-> fs]
       ELSE IF Node(fs, r.path).kind = "dir"
       THEN [status |-> "ok", fs |-> {e \in fs : ~Under(r.path, e.path)}]
       ELSE IF Node(fs, r.path).kind = "none" THEN [status |-> "error", fs |-> fs]
       ELSE [status |-> "ok", fs |-> {e \in fs : e.path # r.path}]

\* lines 244-250; shutil.copy2(src, dst) copies into dst when dst is a
\* directory, and opens the source before it opens the destination
_op_file_copy(fs, payload) ==
    LET src == _resolve_in_repo(fs, RepoRoot, payload.path)
        dst == _resolve_in_repo(fs, RepoRoot, payload.to)
        made == Mkdirs(fs, SubSeq(dst.path, 1, Len(dst.path) - 1))
        real_dst == IF Node(made.fs, dst.path).kind = "dir"
                    THEN Append(dst.path, src.path[Len(src.path)])
                    ELSE dst.path
    IN IF src.refused \/ dst.refused THEN [status |-> "refused", fs |-> fs]
       ELSE IF made.status # "ok" THEN made
       ELSE IF Node(made.fs, src.path).kind # "file" \/ real_dst = src.path
       THEN [status |-> "error", fs |-> made.fs]
       ELSE WriteThrough(made.fs, real_dst, Node(made.fs, src.path).data, FALSE)

\* lines 253-260
_op_file_append(fs, payload) ==
    LET r == _resolve_in_repo(fs, RepoRoot, payload.path)
        made == Mkdirs(fs, SubSeq(r.path, 1, Len(r.path) - 1))
    IN IF r.refused THEN [status |-> "refused", fs |-> fs]
       ELSE IF made.status # "ok" THEN made
       ELSE WriteThrough(made.fs, r.path, payload.content, TRUE)

\* lines 263-267
_op_file_mkdir(fs, payload) ==
    LET r == _resolve_in_repo(fs, RepoRoot, payload.path)
    IN IF r.refused THEN [status |-> "refused", fs |-> fs] ELSE Mkdirs(fs, r.path)

\* lines 304-316 and 329: fn = OPS.get(op); fn(payload)
OPS(fs, payload) ==
    CASE payload.op = "task.summary" -> _op_task_summary(fs, payload)
      [] payload.op = "file.write" -> _op_file_write(fs, payload)
      [] payload.op = "file.patch" -> _op_file_patch(fs, payload)
      [] payload.op = "file.rename" -> _op_file_rename(fs, payload)
      [] payload.op = "file.delete" -> _op_file_delete(fs, payload)
      [] payload.op = "file.copy" -> _op_file_copy(fs, payload)
      [] payload.op = "file.append" -> _op_file_append(fs, payload)
      [] payload.op = "file.mkdir" -> _op_file_mkdir(fs, payload)

\* ---- inputs of the operations
\* the path arguments "a.txt", "docs", "docs/", "docs/a.txt", ".",
\* "../etc/passwd", "/etc/new" and "esc/new"
RawPaths ==
    { [absolute |-> FALSE, parts |-> <<"a.txt">>, dirlike |-> FALSE],
      [absolute |-> FALSE, parts |-> <<"docs">>, dirlike |-> FALSE],
      [absolute |-> FALSE, parts |-> <<"docs">>, dirlike |-> TRUE],
      [absolute |-> FALSE, parts |-> <<"docs", "a.txt">>, dirlike |-> FALSE],
      [absolute |-> FALSE, parts |-> <<>>, dirlike |-> FALSE],
      [absolute |-> FALSE, parts |-> <<"..", "etc", "passwd">>, dirlike |-> FALSE],
      [absolute |-> TRUE, parts |-> <<"etc", "new">>, dirlike |-> FALSE],
      [absolute |-> FALSE, parts |-> <<"esc", "new">>, dirlike |-> FALSE] }

\* the payloads: `path` is "path", "from" or "targetPath" ("has_target": it
\* is set), `to` is read by file.rename and file.copy alone
Payloads ==
    { [op |-> op, path |-> path, to |-> to, has_target |-> has_target,
       content |-> <<"x">>, old_text |-> "x", new_text |-> "y"] :
        op \in {"task.summary", "file.write", "file.patch", "file.rename",
                "file.delete", "file.copy", "file.append", "file.mkdir"},
        path \in RawPaths, to \in RawPaths, has_target \in BOOLEAN }

\* what a checkout may hold when the operations start: the repository with a
\* file and a directory, a directory with a file next to the repository, and
\* symbolic links in the repository: to a directory, to a file, to nothing
InitialFilesystems ==
    LET base == { [path |-> <<"etc">>, kind |-> "dir", data |-> <<>>],
                  [path |-> <<"etc", "passwd">>, kind |-> "file", data |-> <<"root">>],
                  [path |-> RepoRoot, kind |-> "dir", data |-> <<>>],
                  [path |-> <<"repo", "a.txt">>, kind |-> "file", data |-> <<"x">>],
                  [path |-> <<"repo", "docs">>, kind |-> "dir", data |-> <<>>] }
        links == { [path |-> <<"repo", "esc">>, kind |-> "link", data |-> <<"etc">>],
                   [path |-> <<"repo", "docs", "task_summary.md">>, kind |-> "link",
                    data |-> <<"etc", "passwd">>],
                   [path |-> <<"repo", "docs", "a.txt">>, kind |-> "link",
                    data |-> <<"etc", "new">>] }
    IN { base \cup some : some \in SUBSET links }

InitOps ==
    /\ pc = "ops"
    /\ proc = NoProc
    /\ provider = "openai"
    /\ base_url = ""
    /\ tool_preflight_enabled = FALSE
    /\ models_to_try = <<>>
    /\ attempted_models = <<>>
    /\ preflight_failures = <<>>
    /\ last_error_text = <<>>
    /\ active_model = NoModel
    /\ result = NoResult
    /\ preflightLog = <<>>
    /\ classifierLog = <<>>
    /\ agentLog = <<>>
    /\ runLog = <<>>
    /\ failureLog = <<>>
    /\ discoverCalls = 0
    /\ lastStep = Step("init", NoModel, <<>>, <<>>, <<>>)
    /\ \E fs \in InitialFilesystems :
          call = [fn |-> "deterministic_ops", fs |-> fs, start |-> fs, op |-> "none",
                  n |-> 0, status |-> "ok", changed |-> FALSE,
                  outside_arg |-> FALSE]

\* lines 319-330: one run of the script on the checkout as the runs before
\* left it; `outside_arg` records whether a path argument the operation reads
\* resolves outside the repository root, `changed` whether the run changed
\* anything
RunOperation ==
    /\ pc = "ops"
    /\ call.n < MaxOps
    /\ \E payload \in Payloads :
        LET r == OPS(call.fs, payload)
            two == payload.op \in {"file.rename", "file.copy"}
            outside(raw) == _resolve_in_repo(call.fs, RepoRoot, raw).refused
        IN /\ (~two => payload.to = payload.path)
           /\ (payload.op # "task.summary" => payload.has_target)
           /\ \A e \in r.fs : /\ Len(e.path) <= MaxPathDepth
                              /\ Len(e.data) <= MaxFileTokens
           /\ call' = [call EXCEPT !.fs = r.fs, !.op = payload.op, !.n = call.n + 1,
                                   !.status = r.status, !.changed = (r.fs # call.fs),
                                   !.outside_arg = /\ payload.has_target
                                                   /\ \/ outside(payload.path)
                                                      \/ two /\ outside(payload.to)]
    /\ HelperUnchanged

OpsSpec == InitOps /\ [][RunOperation]_vars

TypeOK ==
    /\ pc \in {"main", "deterministic", "start", "loop", "preflight", "tool_preflight",
              "agent", "done", "exit", "helper"}
    /\ (pc = "done") <=> (result # NoResult)
    /\ (pc \in {"done", "exit"}) <=> proc.returned

\* ------------------------------------------------------------- properties
IsPrefix(s, t) == Len(s) <= Len(t) /\ SubSeq(t, 1, Len(s)) = s

LogModels(log) == {log[i].model : i \in 1..Len(log)}

Last(s) == s[Len(s)]

\* C1: attempted_models only grows; no model name is chat-preflighted or run
\* twice; popping a name that is already attempted issues no call at all; and
\* a discovered id whose provider-prefixed form equals an attempted (failed)
\* model is not queued again.
C1_AttemptedOnlyGrowsNoRetry ==
    [][ /\ IsPrefix(attempted_models, attempted_models')
        /\ (preflightLog' # preflightLog =>
               /\ preflightLog' = Append(preflightLog, Last(preflightLog'))
               /\ Last(preflightLog').model \notin LogModels(preflightLog))
        /\ (runLog' # runLog =>
               /\ runLog' = Append(runLog, Last(runLog'))
               /\ Last(runLog') \notin Range(runLog))
        /\ (pc = "loop" /\ models_to_try # <<>>
              /\ Head(models_to_try) \in Range(attempted_models) =>
               /\ pc' = "loop"
               /\ UNCHANGED <<preflightLog, classifierLog, runLog, attempted_models>>)
        /\ (discoverCalls' # discoverCalls /\ pc # "start" =>
               \A i \in 1..Len(lastStep'.discovered) :
                   LET d == lastStep'.discovered[i]
                       prefixed == IF _model_is_provider_qualified(d) THEN d
                                   ELSE <<provider>> \o d
                   IN prefixed \in Range(attempted_models)
                        => prefixed \notin Range(models_to_try'))
      ]_vars

\* a re-discovery listed an attempted model under its unprefixed name and the
\* loop went on without queueing it
C1_Witness ==
    /\ lastStep.kind = "preflight_fallback"
    /\ \E i \in 1..Len(lastStep.discovered) :
          /\ ~_model_is_provider_qualified(lastStep.discovered[i])
          /\ (<<provider>> \o lastStep.discovered[i]) \in Range(attempted_models)
          /\ (<<provider>> \o lastStep.discovered[i]) \notin Range(models_to_try)
    /\ Len(attempted_models) >= 2

\* C2: no chat preflight, no tool-need classifier call and no agent run is
\* ever issued for a candidate that _is_embedding_model flags.
C2_EmbeddingNeverCalled ==
    \A m \in LogModels(preflightLog) \cup LogModels(classifierLog) \cup Range(runLog) :
        ~_is_embedding_model(m)

\* an embedding candidate was popped and skipped, and nothing was called
C2_Witness ==
    /\ lastStep.kind = "pop_skip_embedding"
    /\ _is_embedding_model(active_model)
    /\ preflightLog = <<>>

AttemptedListSummaries ==
    { "OpenHands model preflight failed and no fallback model succeeded",
      "OpenHands model failed to load and no fallback model succeeded",
      "OpenHands model selection exhausted with no successful execution" }

\* C3: an embedding-named queue entry never appears in the "Attempted models"
\* list of a returned result.
C3_EmbeddingNotReported ==
    (result # NoResult /\ result.summary \in AttemptedListSummaries) =>
        \A i \in 1..Len(result.stderr.attempted) :
            ~_is_embedding_model(result.stderr.attempted[i])

\* the provider-prefixed name of a discovered id
Prefixed(d) == IF _model_is_provider_qualified(d) THEN d ELSE <<provider>> \o d

\* the names a re-discovery offers: the discovered ids in order, then the default
Offered(discovered) ==
    [i \in 1..(Len(discovered) + 1) |->
        IF i <= Len(discovered) THEN Prefixed(discovered[i])
        ELSE Prefixed(DEFAULT_OPENHANDS_MODEL)]

\* offered names that may still be tried
Eligible(discovered, attempted, pending) ==
    { x \in Range(Offered(discovered)) :
        x \notin Range(attempted) /\ x \notin Range(pending) /\ ~_is_embedding_model(x) }

FirstIndex(s, x) == CHOOSE i \in 1..Len(s) : s[i] = x /\ \A j \in 1..(i - 1) : s[j] # x

NoDuplicates(s) == \A i, j \in 1..Len(s) : i # j => s[i] # s[j]

LoadOrNotFound(text) ==
    \/ _is_model_load_failure(text)
    \/ (Contains(text, "model") /\ Contains(text, "not found"))

\* the step is a failed chat preflight of the active model
PreflightFailsNow == pc = "preflight" /\ Len(preflight_failures') > Len(preflight_failures)

\* the queue grew at its tail by exactly the eligible offered names, in the
\* order they were offered, and the loop goes on
QueueExtendedByEligible ==
    LET added == SubSeq(models_to_try', Len(models_to_try) + 1, Len(models_to_try'))
        offered == Offered(lastStep'.discovered)
    IN /\ IsPrefix(models_to_try, models_to_try')
       /\ Range(added) = Eligible(lastStep'.discovered, attempted_models, models_to_try)
       /\ NoDuplicates(models_to_try')
       /\ \A i, j \in 1..Len(added) :
             i < j => FirstIndex(offered, added[i]) < FirstIndex(offered, added[j])
       /\ result' = NoResult
       /\ pc' = "loop"

\* C4: a preflight failure with a load / not-found signature whose re-discovery
\* offers at least one name neither attempted nor pending appends exactly those
\* names at the tail of the queue in discovery order, returns no result, and
\* the next step preflights the head of the queue.
C4_PreflightFallbackAppendsAtTail ==
    [][ /\ (/\ PreflightFailsNow
            /\ LoadOrNotFound(Last(preflight_failures')[2])
            /\ Eligible(lastStep'.discovered, attempted_models, models_to_try) # {}
            => QueueExtendedByEligible)
        /\ (pc = "loop" /\ lastStep.kind = "preflight_fallback" =>
               /\ pc' = "preflight"
               /\ active_model' = Head(models_to_try)
               /\ models_to_try' = Tail(models_to_try))
      ]_vars

\* a preflight load failure appended new names behind a candidate that was
\* already pending
C4_Witness ==
    /\ lastStep.kind = "preflight_fallback"
    /\ LoadOrNotFound(lastStep.detail)
    /\ lastStep.appended # <<>>
    /\ Len(models_to_try) > Len(lastStep.appended)
    /\ pc = "loop"

PreflightNoFallbackSummary ==
    "OpenHands model preflight failed and no fallback model succeeded"

\* C5 as stated: the no-fallback report after a preflight load failure carries
\* ok=false, exitCode=2, every attempted model, and the preflight detail of
\* each attempted model that failed its preflight.
C5_ReportHasEveryPreflightDetail ==
    (result # NoResult /\ result.summary = PreflightNoFallbackSummary) =>
        /\ ~result.ok
        /\ result.exitCode = 2
        /\ result.stderr.attempted = attempted_models
        /\ \A i \in 1..Len(preflight_failures) :
              preflight_failures[i][2] = result.stderr.lead

\* C5 amended: the report carries ok=false, exitCode=2, every attempted model,
\* and the preflight detail of the model whose preflight just failed.
C5_ReportHasAttemptedAndLastDetail ==
    (result # NoResult /\ result.summary = PreflightNoFallbackSummary) =>
        /\ ~result.ok
        /\ result.exitCode = 2
        /\ result.stderr.attempted = attempted_models
        /\ LogModels(preflightLog) \subseteq Range(result.stderr.attempted)
        /\ Last(failureLog).phase = "preflight"
        /\ Last(failureLog).model = Last(attempted_models)
        /\ result.stderr.lead = Last(failureLog).text
        /\ LoadOrNotFound(result.stderr.lead)

\* the third attempted model failed its preflight with a load failure and the
\* re-discovery offered nothing new
C5_Witness ==
    /\ result # NoResult
    /\ result.summary = PreflightNoFallbackSummary
    /\ Len(attempted_models) >= 3
    /\ Len(preflight_failures) >= 2

\* C6: a preflight failure whose detail matches neither signature drops the
\* candidate without re-discovery and without touching the pending queue, and
\* the next pending candidate, if any, is preflighted next.
C6_TransientPreflightSkips ==
    [][ /\ (PreflightFailsNow /\ ~LoadOrNotFound(Last(preflight_failures')[2]) =>
               /\ discoverCalls' = discoverCalls
               /\ models_to_try' = models_to_try
               /\ active_model \notin Range(models_to_try')
               /\ attempted_models' = attempted_models
               /\ result' = NoResult
               /\ pc' = "loop")
        /\ (pc = "loop" /\ lastStep.kind = "preflight_transient" /\ models_to_try # <<>> =>
               /\ pc' = "preflight"
               /\ active_model' = Head(models_to_try))
      ]_vars

\* after a transient preflight failure of one candidate the next pending
\* candidate is being preflighted
C6_Witness ==
    /\ pc = "preflight"
    /\ preflight_failures # <<>>
    /\ ~LoadOrNotFound(Last(preflight_failures)[2])
    /\ Len(attempted_models) >= 2
    /\ Last(preflight_failures)[1] = attempted_models[Len(attempted_models) - 1]
    /\ active_model = Last(attempted_models)

\* the step is an exception raised while building or running the agent
AgentRaisesNow == pc = "agent" /\ Len(failureLog') > Len(failureLog)

\* C7: an exception of the agent phase whose text matches the model-load
\* signature takes the fallback path of a preflight load failure: re-discovery
\* runs, names neither attempted nor pending are appended at the tail and the
\* loop goes on; only when there are none a failure with exitCode 2 is returned.
C7_RunLoadFailureFallsBack ==
    [][ AgentRaisesNow /\ _is_model_load_failure(Last(failureLog').text) =>
          /\ discoverCalls' = discoverCalls + 1
          /\ active_model \notin Range(models_to_try')
          /\ IF Eligible(lastStep'.discovered, attempted_models, models_to_try) # {}
             THEN QueueExtendedByEligible
             ELSE /\ pc' = "done"
                  /\ result' # NoResult
                  /\ ~result'.ok
                  /\ result'.exitCode = 2
                  /\ models_to_try' = models_to_try
      ]_vars

\* an agent run raised a load failure and fallback names were queued
C7_Witness ==
    /\ lastStep.kind = "exc_fallback"
    /\ runLog # <<>>
    /\ Last(runLog) = lastStep.model
    /\ _is_model_load_failure(lastStep.detail)
    /\ lastStep.appended # <<>>
    /\ pc = "loop"

\* C8: an exception of the agent phase that is no load failure ends the
\* execution at once with the summary of its signature, and no candidate is
\* preflighted or run afterwards, whatever is still pending.
C8_OtherExceptionIsTerminal ==
    [][ /\ (AgentRaisesNow /\ ~_is_model_load_failure(Last(failureLog').text) =>
              LET text == Last(failureLog').text IN
              /\ pc' = "done"
              /\ result' # NoResult
              /\ ~result'.ok
              /\ result'.stderr.lead = text
              /\ models_to_try' = models_to_try
              /\ IF Contains(text, "connection error") \/ Contains(text, "connection refused")
                 THEN /\ result'.summary =
                           "OpenHands could not connect to the configured local LLM endpoint"
                      /\ result'.exitCode = 2
                 ELSE IF Contains(text, "cannot truncate prompt with n_keep")
                         /\ Contains(text, "n_ctx")
                 THEN /\ result'.summary = "OpenHands prompt exceeded LM Studio context window"
                      /\ result'.exitCode = 2
                 ELSE /\ result'.summary = "OpenHands agent task execution failed"
                      /\ result'.exitCode = 1)
        /\ (pc = "done" => UNCHANGED <<preflightLog, classifierLog, runLog, result>>)
      ]_vars

\* an agent run raised a connection error while another candidate was pending
C8_Witness ==
    /\ lastStep.kind = "exc_terminal"
    /\ runLog # <<>>
    /\ models_to_try # <<>>
    /\ pc = "done"
    /\ Contains(lastStep.detail, "connection refused")

ExhaustedSummary == "OpenHands model selection exhausted with no successful execution"

\* the failed preflights, as "model: detail" entries
PreflightEntries ==
    LET isPreflight(f) == f.phase = "preflight"
        failed == SelectSeq(failureLog, isPreflight)
    IN [i \in 1..Len(failed) |-> <<failed[i].model, failed[i].text>>]

C10_RunOnlyAfterPreflights ==
    [][ runLog' # runLog =>
          LET m == Last(runLog') IN
          /\ pc = "agent"
          /\ result = NoResult
          /\ preflightLog # <<>>
          /\ Last(preflightLog) = [model |-> m, ok |-> TRUE]
          /\ (tool_preflight_enabled =>
                /\ classifierLog # <<>>
                /\ Last(classifierLog) = [model |-> m, returned |-> TRUE,
                                          needs_tools |-> TRUE, hard_fail |-> FALSE])
      ]_vars

\* an agent run started after both the chat preflight and the classifier
\* cleared the model
C10_Witness ==
    /\ runLog # <<>>
    /\ tool_preflight_enabled
    /\ classifierLog # <<>>
    /\ Last(classifierLog).model = Last(runLog)
    /\ Last(preflightLog).model = Last(runLog)

\* the step is a call of the tool-need classifier that returned a decision
ClassifierReturnsNow ==
    /\ pc = "tool_preflight"
    /\ Len(classifierLog') > Len(classifierLog)
    /\ Last(classifierLog').returned

\* nothing but stuttering happens once a result has been returned
NothingAfterReturn == pc = "done" => UNCHANGED vars

\* C11: when the classifier returns hard_fail=true the execution returns
\* ok=false with exitCode 2 at once: no agent is constructed, no message is
\* sent, no run starts, and no further candidate is popped or preflighted.
C11_HardFailIsTerminal ==
    [][ /\ (ClassifierReturnsNow /\ Last(classifierLog').hard_fail =>
               /\ pc' = "done"
               /\ result' # NoResult
               /\ ~result'.ok
               /\ result'.exitCode = 2
               /\ Last(classifierLog').model \notin Range(agentLog')
               /\ Last(classifierLog').model \notin Range(runLog')
               /\ UNCHANGED <<agentLog, runLog, preflightLog, models_to_try,
                              attempted_models, discoverCalls>>)
        /\ NothingAfterReturn
      ]_vars

\* the classifier hard-failed for a fallback candidate while another one was
\* still pending
C11_Witness ==
    /\ lastStep.kind = "tool_hard_fail"
    /\ pc = "done"
    /\ Last(classifierLog).hard_fail
    /\ models_to_try # <<>>
    /\ Len(attempted_models) >= 2

\* the stdout the caller builds from the classifier's why and plan
AnswerFrom(why, plan) ==
    IF why = "" /\ plan = "" THEN <<"No repository tools required.">>
    ELSE IF plan = "" THEN <<"Reason", why>>
    ELSE IF why = "" THEN <<"Plan", plan>>
    ELSE <<"Reason", why, "Plan", plan>>

ToolCallReturned ==
    /\ call.fn = "_tool_need_preflight"
    /\ call.done
    /\ ~call.out.raised

\* the answer that ended the request loop of the classifier call
ToolLastAnswer ==
    LET n == Len(ToolBodyVariants(provider, call.args.session_user, call.args.slot))
    IN IF call.args.k >= n THEN call.args.retry ELSE call.args.final

IsCompletion(r) == r.kind = "ok" /\ r.payload.shape = "completion"

ExactlyOneObject(content) == Len(content) = 1 /\ content[1].t = "obj"

NoObjectAtAll(content) == \A i \in 1..Len(content) : content[i].t # "obj"

\* C13: _tool_need_preflight returns hard_fail=true only in strict mode for a
\* 2xx completion whose text is not exactly one JSON object (and then always);
\* a network failure, a timeout or an HTTP error ending the variant cascade
\* gives needs_tools=true with hard_fail=false; so does, in lenient mode, a
\* completion from which no object can be read.
C13_HardFailOnlyOnStrictParseFailure ==
    ToolCallReturned =>
        LET d == call.out.decision
            r == ToolLastAnswer
        IN /\ (d.hard_fail <=>
                 /\ tool_preflight_enabled
                 /\ call.args.require_strict_json
                 /\ IsCompletion(r)
                 /\ ~ExactlyOneObject(r.payload.content))
           /\ (tool_preflight_enabled /\ r.kind \in {"http", "timeout", "neterr"} =>
                 d.needs_tools /\ ~d.hard_fail /\ d.why # "tool preflight response parse failed")
           /\ (/\ tool_preflight_enabled
               /\ ~call.args.require_strict_json
               /\ IsCompletion(r)
               /\ NoObjectAtAll(r.payload.content)
               => /\ d.needs_tools
                  /\ ~d.hard_fail
                  /\ d.why = "tool preflight response parse failed")

\* in strict mode a completion holding prose around a JSON object was answered,
\* after one rejected request body, with a hard failure
C13_Witness ==
    /\ ToolCallReturned
    /\ call.args.require_strict_json
    /\ call.args.k = 1
    /\ IsCompletion(call.args.final)
    /\ Len(call.args.final.payload.content) = 2
    /\ \E i \in 1..2 : call.args.final.payload.content[i].t = "obj"
    /\ call.out.decision.hard_fail
    /\ call.out.requests = 2

\* an agent run that has ended, by returning or by raising
AgentRunEnded == call.fn = "conversation.run" /\ call.done

\* the conversation calls of the run that satisfy a test
EventCount(Test(_)) ==
    Cardinality({i \in 1..Len(call.out.events) : Test(call.out.events[i])})

IsRun(e) == e.ev = "run"
IsRecoveryHint(e) == e.ev = "send_message" /\ e.what = "recovery_hint"
IsNudge(e) == e.ev = "send_message" /\ e.what = "steering_nudge"
IsStopSignal(e) == e.ev = "steering_stop"
IsJoin(e) == e.ev = "steering_join"

\* C14: with recoveryAttempts = R, an agent run that raises a timeout-signature
\* exception every time is attempted exactly R+1 times and gets exactly R
\* recovery hints before the exception reaches the failure handling.
C14_TimeoutRetriedRTimes ==
    \A R \in 0..MaxRecoveryAttempts :
        (/\ AgentRunEnded
         /\ call.args.first = "request timed out"
         /\ call.args.rest = "request timed out")
        => /\ call.out.raised = "request timed out"
           /\ EventCount(IsRun) = R + 1
           /\ EventCount(IsRecoveryHint) = R

\* the initial delays and intervals, in clock ticks, steering may be set to
SteeringDelays == 1..2

\* C15: with steering enabled and maxNudges = N, a run longer than
\* initialDelay + (N-1)*interval gets exactly N nudges and a run shorter than
\* initialDelay gets none.
C15_NudgesAsProgrammed ==
    \A N \in 1..MaxNudges, initialDelay \in SteeringDelays, interval \in SteeringDelays :
        AgentRunEnded =>
           /\ (call.args.ticks > initialDelay + (N - 1) * interval
                 => EventCount(IsNudge) = N)
           /\ (call.args.ticks < initialDelay => EventCount(IsNudge) = 0)

\* C16: with steering enabled and a positive nudge count, every way an agent
\* run ends (returning or raising) has the supervisor's stop signal set and
\* its task joined by then, the join after the signal.
C16_SupervisorStoppedAndJoined ==
    AgentRunEnded =>
        \E i, j \in 1..Len(call.out.events) :
            /\ i < j
            /\ IsStopSignal(call.out.events[i])
            /\ IsJoin(call.out.events[j])

\* a call of the chat preflight, with an endpoint configured, that has returned
ChatCallReturned ==
    /\ call.fn = "_llm_model_chat_preflight"
    /\ call.done
    /\ base_url # ""

\* the request bodies in the order the preflight is to try them
VariantsInOrder(session_user, slot) ==
    IF provider # "openai" \/ session_user = "" THEN << {} >>
    ELSE IF slot
    THEN << {"user", "session_id", "conversation_id", "id_slot"},
            {"user", "session_id", "conversation_id"},
            {"user", "id_slot"}, {"user"}, {"id_slot"}, {} >>
    ELSE << {"user", "session_id", "conversation_id"}, {"user"}, {} >>

IsRejectedField(r) ==
    /\ r.kind = "http"
    /\ r.code = 400
    /\ \E f \in {"unknown field", "session_id"} : r.body = <<f>>

Is2xx(r) == r.kind = "status" /\ r.code \in 200..299

\* C17: for the OpenAI-compatible provider with a session user, an endpoint
\* that rejects the first k body variants with HTTP 400 and a rejected-field
\* text and accepts variant k makes the preflight send the variants in list
\* order and return ok=true after exactly k+1 requests.
C17_CascadeStopsAtFirstAccepted ==
    LET a == call.args
        order == VariantsInOrder(a.session_user, a.slot)
    IN (/\ ChatCallReturned
        /\ provider = "openai"
        /\ a.session_user # ""
        /\ a.k < Len(order)
        /\ IsRejectedField(a.retry)
        /\ Is2xx(a.final))
       => /\ call.out.ok
          /\ Len(call.out.sent) = a.k + 1
          /\ call.out.sent = SubSeq(order, 1, a.k + 1)

\* with a slot id configured the endpoint rejected four body variants and
\* accepted the fifth, the one carrying the slot id alone
C17_Witness ==
    /\ ChatCallReturned
    /\ provider = "openai"
    /\ call.args.session_user # ""
    /\ call.args.slot
    /\ call.args.k = 4
    /\ IsRejectedField(call.args.retry)
    /\ Is2xx(call.args.final)
    /\ call.out.ok
    /\ call.out.sent[5] = {"id_slot"}

\* the request at which the loop of the preflight stops, and its answer
ChatStopsAt ==
    LET a == call.args
        n == Len(VariantsInOrder(a.session_user, a.slot))
        goesOn(r) == IsRejectedField(r) \/ (r.kind = "status" /\ ~Is2xx(r))
    IN IF a.k >= n \/ goesOn(a.final) THEN n ELSE a.k + 1

ChatLastAnswer ==
    IF ChatStopsAt <= call.args.k THEN call.args.retry ELSE call.args.final

IsAuthRejection(r) == r.kind = "http" /\ r.code \in {401, 403}

\* C18 as stated: a preflight whose final response is HTTP 401 or 403 returns
\* ok=true whatever the response body holds.
C18_AuthRejectionAlwaysOk ==
    ChatCallReturned /\ IsAuthRejection(ChatLastAnswer) => call.out.ok

\* C18 amended: a preflight whose final response is HTTP 401 or 403 returns
\* ok=true unless the response body matches a model-load-failure or
\* "model not found" signature, in which case it returns ok=false.
C18_AuthRejectionOkUnlessSignature ==
    ChatCallReturned /\ IsAuthRejection(ChatLastAnswer) =>
        /\ call.out.ok <=> ~LoadOrNotFound(ChatLastAnswer.body)
        /\ Len(call.out.sent) = ChatStopsAt

\* after two rejected body variants the endpoint answered 403 and the
\* preflight returned ok=true
C18_Witness ==
    /\ ChatCallReturned
    /\ call.args.k = 2
    /\ Len(call.out.sent) = 3
    /\ call.args.final = [kind |-> "http", code |-> 403, body |-> <<"forbidden">>]
    /\ call.out.ok

\* the text that states the timeout window
WindowText(timeout) == IF timeout = 3 THEN "timed out after 3s" ELSE "timed out after 10s"

SaysTimeout(r) ==
    \/ r.kind = "timeout"
    \/ (r.kind = "neterr" /\ r.text \in {<<"urlopen error timed out">>, <<"read timeout">>})

\* C19: _llm_model_chat_preflight always returns a pair (ok, detail); an HTTP
\* error other than 401/403 to which no rejected-field retry applies, a timeout
\* and a network exception give ok=false with no further variant sent, and the
\* detail of a timeout states the timeout window.
C19_FailuresReturnNotRaise ==
    call.fn = "_llm_model_chat_preflight" /\ call.done =>
        /\ call.out.ok \in BOOLEAN
        /\ call.out.detail # <<>>
        /\ (base_url # "" =>
              LET r == ChatLastAnswer IN
              /\ (r.kind = "http" /\ ~IsAuthRejection(r) =>
                     ~call.out.ok /\ Len(call.out.sent) = ChatStopsAt)
              /\ (r.kind \in {"timeout", "neterr"} =>
                     ~call.out.ok /\ Len(call.out.sent) = ChatStopsAt)
              /\ (SaysTimeout(r) =>
                     Last(call.out.detail) = WindowText(call.args.timeout)))

\* the second request of a preflight with a 3 second window timed out while
\* further body variants were left
C19_Witness ==
    /\ ChatCallReturned
    /\ call.args.timeout = 3
    /\ call.args.k = 1
    /\ call.args.final.kind = "timeout"
    /\ Len(call.out.sent) = 2
    /\ Len(VariantsInOrder(call.args.session_user, call.args.slot)) > 2
    /\ ~call.out.ok
    /\ Last(call.out.detail) = "timed out after 3s"

\* C20: a chat preflight that fails on an HTTP error whose response body
\* matches a model-load-failure or "model not found" signature, wherever in the
\* body, is followed by re-discovery of fallback candidates, never by the
\* transient skip.
C20_BodySignatureTakesFallbackPath ==
    [][ PreflightFailsNow /\ LoadOrNotFound(Last(failureLog').body) =>
          /\ discoverCalls' = discoverCalls + 1
          /\ lastStep'.kind \in {"preflight_fallback", "preflight_no_fallback"}
      ]_vars

\* ------------------------------------------- the fallback list on its own
FallbackCallReturned ==
    /\ call.fn = "_fallback_models_after_load_failure"
    /\ call.done

\* the provider-normalized failed model and fixed default of the call
FailedNorm == Prefixed(call.args.failed_model)
DefaultNorm == Prefixed(DEFAULT_OPENHANDS_MODEL)

\* the normalized ids of the discovery result, in discovery order
ListedNorm ==
    [i \in 1..Len(call.args.available_models) |-> Prefixed(call.args.available_models[i])]

\* no failed model, no embedding model, no duplicates, and the names that
\* survive stand in the order in which discovery (then the default) offers them
FallbackListFiltered ==
    LET out == call.out
        offered == Offered(call.args.available_models)
    IN /\ FailedNorm \notin Range(out)
       /\ \A i \in 1..Len(out) : ~_is_embedding_model(out[i])
       /\ NoDuplicates(out)
       /\ Range(out) = { x \in Range(offered) :
                            x # FailedNorm /\ ~_is_embedding_model(x) }
       /\ \A i, j \in 1..Len(out) :
             i < j => FirstIndex(offered, out[i]) < FirstIndex(offered, out[j])

\* C21 as stated: the list returned by _fallback_models_after_load_failure has
\* no entry equal to the normalized failed model, no embedding model, no
\* duplicates, keeps discovery order, and ends with the normalized fixed
\* default whenever the default differs from the failed model.
C21_DefaultIsLast ==
    FallbackCallReturned =>
        /\ FallbackListFiltered
        /\ (DefaultNorm # FailedNorm =>
               call.out # <<>> /\ Last(call.out) = DefaultNorm)

\* C21 (amended): the list has no entry equal to the normalized failed model,
\* no embedding model, no duplicates, and keeps discovery order; whenever the
\* default differs from the failed model the list contains the normalized
\* default, as its last element unless the discovery result itself lists the
\* default, in which case the default keeps its discovery position.
C21_DefaultPresentLastUnlessListed ==
    FallbackCallReturned =>
        /\ FallbackListFiltered
        /\ (DefaultNorm # FailedNorm =>
               /\ DefaultNorm \in Range(call.out)
               /\ (DefaultNorm \notin Range(ListedNorm) =>
                      Last(call.out) = DefaultNorm)
               /\ (DefaultNorm \in Range(ListedNorm) =>
                      \A i \in 1..Len(call.out) :
                          call.out[i] = DefaultNorm =>
                            \A j \in 1..(i - 1) :
                                FirstIndex(ListedNorm, call.out[j])
                                  < FirstIndex(ListedNorm, DefaultNorm)))

\* a discovery result that lists the default ahead of another usable model,
\* and an unlisted default appended behind a discovered model
C21_Witness ==
    /\ FallbackCallReturned
    /\ DefaultNorm # FailedNorm
    /\ Len(call.out) = 2
    /\ call.out[1] = DefaultNorm
    /\ call.out[2] = Prefixed(<<"m2">>)
    /\ call.args.available_models = << DEFAULT_OPENHANDS_MODEL, <<"m2">> >>

\* ------------------------------------------- the model choice on its own
PickCallReturned ==
    /\ call.fn = "_pick_configured_or_available_model"
    /\ call.done

\* a name without its known provider prefix, in lower case
NameKey(m) ==
    LET bare == _providerless_model_name(m)
    IN [i \in 1..Len(bare) |-> LowerTok(bare[i])]

\* positions of the discovered ids that name the configured model
ConfiguredListedAt ==
    { i \in 1..Len(call.args.available_models) :
        NameKey(call.args.available_models[i]) = NameKey(call.args.configured_model) }

\* C22: a configured (non-empty) model that is absent from a non-empty
\* discovered list, compared case-insensitively and without provider prefix,
\* makes _pick_configured_or_available_model return the first discovered
\* model with reason 'available_fallback'.
C22_AbsentConfiguredFallsBackToFirst ==
    ( /\ PickCallReturned
      /\ call.args.configured_model # <<>>
      /\ call.args.available_models # <<>>
      /\ ConfiguredListedAt = {} )
    => call.out = [model |-> call.args.available_models[1],
                   reason |-> "available_fallback"]

\* the configured m3 is not listed; the endpoint lists a respelled m1 first
C22_Witness ==
    /\ PickCallReturned
    /\ call.args.configured_model = <<"openai", "m3">>
    /\ call.args.available_models = << <<"M1">>, <<"m2">> >>
    /\ call.out.reason = "available_fallback"
    /\ call.out.model = <<"M1">>

\* C23: with an empty discovery result and a non-empty configured model the
\* choice is the configured model with reason 'configured_unverified', never
\* the fixed default 'local-model'; the fixed default is chosen (reason
\* 'default_local_model') only when nothing is configured and nothing is
\* discovered, and 'local-model' is otherwise returned only as an id the
\* endpoint itself lists.
C23_UnverifiedConfiguredNeverDefault ==
    PickCallReturned =>
        /\ ( call.args.available_models = <<>> /\ call.args.configured_model # <<>>
             => /\ call.out = [model |-> call.args.configured_model,
                               reason |-> "configured_unverified"]
                /\ call.out.model # DEFAULT_OPENHANDS_MODEL )
        /\ ( call.out.reason = "default_local_model"
             => /\ call.args.configured_model = <<>>
                /\ call.args.available_models = <<>>
                /\ call.out.model = DEFAULT_OPENHANDS_MODEL )
        /\ ( call.out.model = DEFAULT_OPENHANDS_MODEL
             => \/ ( call.args.configured_model = <<>>
                     /\ call.args.available_models = <<>> )
                \/ DEFAULT_OPENHANDS_MODEL \in Range(call.args.available_models) )

\* nothing discovered: a configured model is kept
C23_Witness ==
    /\ PickCallReturned
    /\ call.args.available_models = <<>>
    /\ call.args.configured_model = <<"openai", "m3">>
    /\ call.out.reason = "configured_unverified"
    /\ call.out.model = <<"openai", "m3">>

\* C24: if the configured model, compared case-insensitively and without a
\* known provider prefix on either side, equals some discovered id, the
\* choice is the first such discovered id exactly as discovered, with reason
\* 'configured', wherever it stands in the discovered list.
C24_ListedConfiguredReturnedAsDiscovered ==
    ( /\ PickCallReturned
      /\ call.args.configured_model # <<>>
      /\ ConfiguredListedAt # {} )
    => LET first == CHOOSE i \in ConfiguredListedAt :
                       \A j \in ConfiguredListedAt : i <= j
       IN call.out = [model |-> call.args.available_models[first],
                      reason |-> "configured"]

\* the configured ollama/M1 is listed second, spelled openai/m1
C24_Witness ==
    /\ PickCallReturned
    /\ call.args.configured_model = <<"ollama", "M1">>
    /\ call.args.available_models = << <<"m2">>, <<"openai", "m1">> >>
    /\ call.out = [model |-> <<"openai", "m1">>, reason |-> "configured"]

\* --------------------------------------------- the endpoint prober on its own
ReachableCallReturned ==
    /\ call.fn = "_llm_endpoint_reachable"
    /\ call.done

\* the probes that get an HTTP response, of whatever status
AnsweredProbes ==
    { i \in 1..ProbeUrlCount : call.args.server[i].kind \in {"status", "http"} }

\* C25: _llm_endpoint_reachable never raises and tries the probe urls in
\* order: the first probe answered with an HTTP response of any status makes
\* it return reachable=true with that probe url and status as detail, no later
\* probe being tried; it returns reachable=false exactly when probes are made
\* and every one fails at network level, with the last error as detail.  (With
\* no base URL no probe is made and the endpoint counts as reachable.)
C25_FirstHttpAnswerWins ==
    ReachableCallReturned =>
      LET a == call.args
          probes == _llm_probe_urls(a.base_url, a.model)
      IN /\ ~call.out.raised
         /\ (a.base_url = "" => call.out.reachable /\ call.out.probed = 0)
         /\ (a.base_url # "" /\ AnsweredProbes # {} =>
               LET first == CHOOSE i \in AnsweredProbes :
                               \A j \in AnsweredProbes : i <= j
               IN /\ call.out.reachable
                  /\ call.out.probed = first
                  /\ call.out.detail
                       = probes[first] \o <<"->", StatusTok(a.server[first].code)>>)
         /\ (a.base_url # "" /\ AnsweredProbes = {} =>
               /\ ~call.out.reachable
               /\ call.out.probed = ProbeUrlCount
               /\ call.out.detail
                    = probes[ProbeUrlCount] \o a.server[ProbeUrlCount].text)
         /\ (~call.out.reachable <=> a.base_url # "" /\ AnsweredProbes = {})

\* the first probe is refused, the second is answered with HTTP 500, the
\* third would have been answered with 200
C25_Witness ==
    /\ ReachableCallReturned
    /\ call.args.base_url = "http://localhost:1234/v1"
    /\ call.args.model = <<"openai", "m1">>
    /\ call.args.server[1].kind = "neterr"
    /\ call.args.server[2] = [kind |-> "http", code |-> 500, text |-> <<>>]
    /\ call.args.server[3].kind = "status"
    /\ call.out.reachable
    /\ call.out.probed = 2
    /\ call.out.detail = <<"http://localhost:1234/v1", "/chat/completions", "->", "HTTP 500">>

\* ------------------------------------------ provider inference on its own
InferCallReturned ==
    /\ call.fn = "_infer_litellm_provider"
    /\ call.done

OllamaHint == LowerTok(call.args.backend) \in {"ollama", "ollama_chat"}
OpenAIHint == LowerTok(call.args.backend) \in {"lmstudio", "openai", "openai_compatible"}

\* C30 as stated: _infer_litellm_provider returns the Ollama provider whenever
\* the backend hint is an Ollama value or the base URL contains '11434', and
\* the OpenAI-compatible provider in every other case.
C30_OllamaByHintOrPort ==
    InferCallReturned =>
        call.out = IF OllamaHint \/ HasOllamaPort(call.args.base_url)
                   THEN "ollama" ELSE "openai"

\* C30 (amended): _infer_litellm_provider returns the Ollama provider whenever
\* the backend hint is an Ollama value, or the hint is not one of the
\* OpenAI-compatible values (lmstudio, openai, openai_compatible) and the base
\* URL contains '11434'; it returns the OpenAI-compatible provider in every
\* other case.
C30_OllamaByHintElsePortUnlessOpenAIHint ==
    InferCallReturned =>
        call.out = IF OllamaHint \/ (~OpenAIHint /\ HasOllamaPort(call.args.base_url))
                   THEN "ollama" ELSE "openai"

\* an OpenAI-compatible hint in front of an endpoint on port 11434, and a
\* capitalised Ollama hint in front of an endpoint on another port
C30_Witness ==
    /\ InferCallReturned
    /\ \/ ( /\ call.args.backend = "lmstudio"
            /\ call.args.base_url = "http://localhost:11434"
            /\ call.out = "openai" )
       \/ ( /\ call.args.backend = "OLLAMA"
            /\ call.args.base_url = "http://localhost:1234/v1"
            /\ call.out = "ollama" )

\* ------------------------------------------------- the result protocol
\* the one result written by a main() that returned
EmittedResult == proc.emitted[1]

\* C26: every invocation of main() that returns has written exactly one result
\* line (the prefix followed by a JSON object) to standard output, on every
\* path: argument and payload validation failures, the agentic lane, and the
\* deterministic lane in success and failure; nothing is written before.
C26_ExactlyOneResultLine ==
    /\ proc.returned =>
          /\ Len(proc.emitted) = 1
          /\ "ok" \in DOMAIN EmittedResult
          /\ (pc = "done" => EmittedResult = result)
    /\ ~proc.returned => proc.emitted = <<>>
    /\ pc \in {"done", "exit"} => proc.returned

\* the agentic lane ended in a failure after trying a model, and main() wrote
\* that result
C26_Witness ==
    /\ pc = "done"
    /\ proc.returned
    /\ attempted_models # <<>>
    /\ ~result.ok
    /\ proc.emitted = <<result>>

\* C27: every result object emitted by main() carries all five fields ok,
\* summary, stdout, stderr and exitCode, on success and on every failure path.
C27_ResultHasFiveFields ==
    \A i \in 1..Len(proc.emitted) :
        DOMAIN proc.emitted[i] = {"ok", "summary", "stdout", "stderr", "exitCode"}

\* the agent runtime (OpenHands SDK) cannot be imported
MissingRuntimeSummaries ==
    { "OpenHands SDK is not available in worker runtime",
      "OpenHands agent mode unavailable in worker runtime" }

\* payload and configuration validation failures (a classifier answer that is
\* no JSON object and a prompt too large for the configured context window
\* among them), an unreachable or refusing endpoint, and model exhaustion
ValidationOrExhaustionSummaries ==
    { "Missing base64 job payload",
      "Failed to decode job payload",
      "Invalid payload: missing 'kind'",
      "Invalid payload: 'params' must be an object",
      "Invalid payload: missing 'repo'",
      "Unsupported job kind",
      "task.execute requires 'instruction'",
      "task.execute requires lane='openhands' or lane='deterministic'",
      "embedded null byte",
      "task.execute requires an LLM model for agentic execution",
      "task.execute agent mode requires an API key",
      "Tool preflight returned non-JSON response",
      "OpenHands prompt exceeded LM Studio context window",
      "OpenHands LLM endpoint is unreachable from worker runtime",
      "OpenHands could not connect to the configured local LLM endpoint" }
    \cup AttemptedListSummaries

\* an exception raised while the task was executed
ExecutionFailureSummaries ==
    { "OpenHands agent task execution failed",
      "OpenHands execution failed for task.execute" }

\* the deterministic lane's command ran to its end
CommandRan == EmittedResult.summary = "Executed task and wrote"

\* C28 as stated: the exit status returned by main() is always one of 0, 1, 2,
\* 3: 0 on success, 3 when the agent runtime cannot be imported, 2 for payload
\* and configuration validation failures, unreachable endpoint and model
\* exhaustion, and 1 for any other execution failure.
C28_ExitStatusZeroToThree ==
    proc.returned =>
        LET r == EmittedResult
            s == proc.status
        IN /\ s \in {0, 1, 2, 3}
           /\ (s = 0 <=> r.ok)
           /\ (s = 3 <=> r.summary \in MissingRuntimeSummaries)
           /\ (r.summary \in ValidationOrExhaustionSummaries => s = 2)
           /\ (r.summary \in ExecutionFailureSummaries => s = 1)

\* C28 (amended): the exit status returned by main() is 0 on success, 3 when
\* the agent runtime cannot be imported, 2 for payload and configuration
\* validation failures, unreachable endpoint and model exhaustion, 1 for any
\* other failure raised during execution, and, when the deterministic lane's
\* command ran and failed, that command's own non-zero exit code, which need
\* not be one of 0, 1, 2, 3.
C28_ExitStatusOrCommandExitCode ==
    proc.returned =>
        LET r == EmittedResult
            s == proc.status
        IN /\ (s = 0 <=> r.ok)
           /\ (r.summary \in MissingRuntimeSummaries => s = 3)
           /\ (r.summary \in ValidationOrExhaustionSummaries => s = 2)
           /\ (r.summary \in ExecutionFailureSummaries => s = 1)
           /\ (CommandRan => s = r.exitCode /\ (r.ok <=> r.exitCode = 0))
           /\ (~r.ok /\ ~CommandRan =>
                 r.summary \in MissingRuntimeSummaries
                                 \cup ValidationOrExhaustionSummaries
                                 \cup ExecutionFailureSummaries)
           /\ (s \notin {0, 1, 2, 3} => CommandRan)

\* the deterministic lane's command ended with 127 and main() returned 127
C28_Witness ==
    /\ pc = "exit"
    /\ proc.returned
    /\ CommandRan
    /\ ~EmittedResult.ok
    /\ EmittedResult.exitCode = 127
    /\ proc.status = 127

\* the error that ended the execution, as the failure log holds it
LastConcreteError ==
    IF Last(failureLog).phase = "preflight"
    THEN Last(failureLog).model \o <<": ">> \o Last(failureLog).text
    ELSE Last(failureLog).text

\* C29: every failure result (ok=false) returned by _run_agentic_task_execute
\* after at least one model has been attempted includes the full list of
\* attempted models and the last concrete error text.
C29_FailureListsAttemptedAndLastError ==
    (result # NoResult /\ ~result.ok /\ attempted_models # <<>>) =>
        /\ "attempted" \in DOMAIN result.stderr
        /\ result.stderr.attempted = attempted_models
        /\ failureLog # <<>> =>
              \/ ( /\ "lead" \in DOMAIN result.stderr
                   /\ result.stderr.lead = Last(failureLog).text )
              \/ ( /\ "last_error" \in DOMAIN result.stderr
                   /\ result.stderr.last_error = LastConcreteError )

\* ---------------------------------------------------------------- C31
NormalizeUrlCallReturned == call.fn = "_normalize_base_url" /\ call.done

\* C31: for every raw base URL the output of _normalize_base_url has no
\* trailing slash and does not end with "/chat/completions" or "/api/chat",
\* so that normalising the output again changes nothing.
C31_NormalizedHasNoSuffix ==
    NormalizeUrlCallReturned =>
        /\ ~EndsWithPiece(call.out, "/")
        /\ ~EndsWithPiece(call.out, "/chat/completions")
        /\ ~EndsWithPiece(call.out, "/api/chat")
        /\ _normalize_base_url(call.out) = call.out

\* ---------------------------------------------------------------- C32
NormalizeModelCallReturned == call.fn = "_normalize_litellm_model" /\ call.done

\* C32: for a resolved provider, _normalize_litellm_model returns the
\* (stripped) name unchanged when its first path segment is a known provider
\* prefix and otherwise returns it with the provider in front (the empty name
\* stays empty); normalising the result again changes nothing, and the
\* provider-less name of the result is the provider-less name of the input.
C32_NormalizeModelIdempotent ==
    (NormalizeModelCallReturned /\ call.args.provider \in {"openai", "ollama"}) =>
        LET m == call.args.model
            p == call.args.provider
            stripped == StripName(m)
            known == /\ Len(stripped) >= 2
                     /\ ProviderSegment(stripped) \in KNOWN_LITELLM_PROVIDER_PREFIXES
        IN /\ known => call.out = stripped
           /\ (~known /\ stripped # <<>>) => call.out = <<p>> \o stripped
           /\ stripped = <<>> => call.out = <<>>
           /\ _normalize_litellm_model(call.out, p) = call.out
           /\ _providerless_model_name(call.out) = _providerless_model_name(m)

\* an unqualified two-segment name with a trailing blank was prefixed
C32_Witness ==
    /\ NormalizeModelCallReturned
    /\ call.args.model = <<"org", "m1 ">>
    /\ call.args.provider = "ollama"
    /\ call.out = <<"ollama", "org", "m1">>

\* ---------------------------------------------------------------- C33
VariantCallReturned == call.fn = "_session_hint_body_variants" /\ call.done

\* the list carries hints at all: OpenAI-compatible provider, session user set
VariantsHinted == call.args.provider = "openai" /\ call.args.session_user # ""

SessionHintFields == {"user", "session_id", "conversation_id"}

AllHintFields(slot_configured) ==
    IF slot_configured THEN SessionHintFields \cup {"id_slot"} ELSE SessionHintFields

\* C33 as stated: the first variant carries all session/user/slot-id hints
\* and the hint fields of each later variant are a subset of the hint fields
\* of the variant before it, with or without a configured slot id.
C33_EachVariantSubsetOfPrevious ==
    VariantCallReturned =>
        /\ VariantsHinted => call.out[1] = AllHintFields(call.args.slot)
        /\ \A i \in 2..Len(call.out) : call.out[i] \subseteq call.out[i - 1]

\* C33: the first variant carries all hints and the user/session_id/
\* conversation_id hints of each later variant are a subset of those of the
\* variant before it.  Without a slot id the whole hint set shrinks from one
\* variant to the next; with a slot id every stage is listed twice, with
\* id_slot and then without it, so id_slot comes back at the next stage.
C33_SessionHintsShrinkSlotAlternates ==
    VariantCallReturned =>
        /\ VariantsHinted => call.out[1] = AllHintFields(call.args.slot)
        /\ \A i \in 2..Len(call.out) :
              (call.out[i] \cap SessionHintFields)
                  \subseteq (call.out[i - 1] \cap SessionHintFields)
        /\ (~call.args.slot \/ ~VariantsHinted) =>
              \A i \in 2..Len(call.out) : call.out[i] \subseteq call.out[i - 1]
        /\ (call.args.slot /\ VariantsHinted) =>
              /\ Len(call.out) % 2 = 0
              /\ \A k \in 1..(Len(call.out) \div 2) :
                    /\ "id_slot" \in call.out[2 * k - 1]
                    /\ call.out[2 * k] = call.out[2 * k - 1] \ {"id_slot"}

\* with a slot id, the third variant brings id_slot back after the second
\* variant dropped it
C33_Witness ==
    /\ VariantCallReturned
    /\ call.args.slot
    /\ Len(call.out) = 6
    /\ call.out[2] = SessionHintFields
    /\ call.out[3] = {"user", "id_slot"}

\* ---------------------------------------------------------------- C37
\* the endpoint answers every request body that carries a hint field with
\* HTTP 400
RejectsEveryHint(variants, server) ==
    \A i \in 1..Len(variants) :
        variants[i] # {} => (server[i].kind = "http" /\ server[i].code = 400)

\* ... and with an error text that names a rejected field
RejectsEveryHintByName(variants, server) ==
    \A i \in 1..Len(variants) : variants[i] # {} => IsRejectedField(server[i])

ChatVariants == _session_hint_body_variants(provider, call.args.session_user, call.args.slot)

ToolVariants == ToolBodyVariants(provider, call.args.session_user, call.args.slot)

ToolHintFields == [i \in 1..Len(ToolVariants) |-> ToolVariants[i].fields]

\* position of the first classifier request body without a session hint
FirstHintFree == CHOOSE i \in 1..Len(ToolVariants) :
                    /\ ToolVariants[i].fields = {}
                    /\ \A j \in 1..(i - 1) : ToolVariants[j].fields # {}

LastVariantHintFree ==
    VariantCallReturned => call.out[Len(call.out)] = {}

\* C37 as stated: the last variant is the body with no hint field, and an
\* endpoint that answers every hint-carrying body with HTTP 400 is sent the
\* hint-free body by the preflight and by the classifier.
C37_Http400ReachesHintFreeBody ==
    /\ LastVariantHintFree
    /\ (ChatCallReturned /\ RejectsEveryHint(ChatVariants, ServerOf(call.args, Len(ChatVariants))))
          => {} \in Range(call.out.sent)
    /\ (/\ ToolCallReturned
        /\ tool_preflight_enabled
        /\ RejectsEveryHint(ToolHintFields, ServerOf(call.args, Len(ToolVariants))))
          => call.out.requests >= FirstHintFree

\* C37: the last variant is the body with no hint field, and an endpoint
\* that answers every hint-carrying body with HTTP 400 and an error text
\* naming a rejected field (session_id, "unknown field") is sent the
\* hint-free body by the preflight and by the classifier.
C37_RecognisedRejectionReachesHintFreeBody ==
    /\ LastVariantHintFree
    /\ (/\ ChatCallReturned
        /\ RejectsEveryHintByName(ChatVariants, ServerOf(call.args, Len(ChatVariants))))
          => {} \in Range(call.out.sent)
    /\ (/\ ToolCallReturned
        /\ tool_preflight_enabled
        /\ RejectsEveryHintByName(ToolHintFields, ServerOf(call.args, Len(ToolVariants))))
          => call.out.requests >= FirstHintFree

\* with a slot id configured the endpoint rejected the five hint-carrying
\* bodies as unknown fields and the sixth request was the hint-free body
C37_Witness ==
    /\ ChatCallReturned
    /\ call.args.slot
    /\ call.args.session_user # ""
    /\ call.args.k = 5
    /\ call.args.retry = RejectedField
    /\ Len(call.out.sent) = 6
    /\ call.out.sent[6] = {}

\* ---------------------------------------------------------------- C36
\* C36: in every result emitted by main(), ok is true exactly when exitCode is
\* 0, and the exit status main() returns is 0 exactly when the emitted ok is
\* true.
C36_OkIffExitCodeZero ==
    proc.returned =>
        \A i \in 1..Len(proc.emitted) :
            /\ proc.emitted[i].ok <=> (proc.emitted[i].exitCode = 0)
            /\ (proc.status = 0) <=> proc.emitted[i].ok

\* the deterministic lane's command ended with 2: ok=false, exitCode 2, and
\* main() returned 2
C36_Witness ==
    /\ pc = "exit"
    /\ proc.returned
    /\ CommandRan
    /\ ~EmittedResult.ok
    /\ EmittedResult.exitCode = 2
    /\ proc.status = 2

\* ---------------------------------------------------------------- C38
\* the defects of a payload, as the claim lists them (the lane is compared
\* stripped and lowered, "openhands" standing in for a missing one)
PayloadDefective(p) ==
    \/ p.argv = "missing"
    \/ ~p.decodes
    \/ p.kind = ""
    \/ ~p.params_is_object
    \/ p.repo = ""
    \/ p.kind # "task.execute"
    \/ p.instruction \in {"", "   "}
    \/ LowerTok(p.lane) \notin {"openhands", "deterministic", ""}

NothingStarted ==
    /\ discoverCalls = 0
    /\ preflightLog = <<>>
    /\ classifierLog = <<>>
    /\ agentLog = <<>>
    /\ runLog = <<>>
    /\ proc.servers = <<>>

\* C38: main() rejects with exit status 2, and before any endpoint request,
\* agent construction or workspace command, every payload that is missing or
\* undecodable, has no string kind, non-object params, no string repo, a kind
\* other than task.execute, an empty instruction or a lane other than
\* openhands and deterministic.
C38_DefectivePayloadRejectedFirst ==
    [][(pc = "main" /\ PayloadDefective(proc.payload)) =>
          /\ pc' = "exit"
          /\ proc'.returned
          /\ proc'.status = 2
          /\ Len(proc'.emitted) = 1
          /\ ~proc'.emitted[1].ok
          /\ proc'.emitted[1].exitCode = 2
          /\ NothingStarted'
          /\ models_to_try' = <<>>
          /\ attempted_models' = <<>>]_vars

\* a payload asking for the lane "fast" was rejected with status 2
C38_Witness ==
    /\ pc = "exit"
    /\ proc.payload # NoPayload
    /\ proc.payload.lane = "fast"
    /\ proc.status = 2
    /\ NothingStarted

\* ---------------------------------------------------------------- C39
\* the error says the connection was refused, however it is spelled
IsConnectionRefused(outcome) ==
    /\ outcome.kind = "raises"
    /\ \E i \in 1..Len(outcome.text) :
          outcome.text[i] \in {"Connection refused", "connection refused", "[Errno 111]"}

WaitingCandidates ==
    { i \in 1..Len(models_to_try) :
        /\ models_to_try[i] \notin Range(attempted_models)
        /\ ~_is_embedding_model(models_to_try[i]) }

\* C34: _run_agentic_task_execute never returns a "no fallback model
\* succeeded" or "model selection exhausted" failure while the pending queue
\* still holds a candidate that is unattempted and not embedding-flagged.
C34_NoFailureWhileCandidatesWait ==
    (result # NoResult /\ result.summary \in AttemptedListSummaries) =>
        WaitingCandidates = {}

\* ---------------------------------------------------------------- C35
\* C35: whatever the endpoint lists and whatever preflight, classifier and
\* agent run return or raise, the candidate loop of _run_agentic_task_execute
\* ends; it ends with exactly one result, which no later step replaces, and no
\* model name is preflighted more than once.
C35_LoopTerminatesWithOneResult ==
    /\ (pc = "start") ~> (pc = "done")
    /\ [](pc = "done" => (result # NoResult /\ proc.emitted = <<result>>))
    /\ [](pc # "done" => result = NoResult)
    /\ [][result # NoResult => result' = result]_vars
    /\ [](\A i, j \in 1..Len(preflightLog) :
             i # j => preflightLog[i].model # preflightLog[j].model)
    \* every statement of main is a pop or moves control: the fairness assumed
    \* of main is that of its own statements
    /\ [][IF AtPop THEN PopHead ELSE pc' # pc]_vars

\* the loop ended by exhaustion after three different models were preflighted
C35_Witness ==
    /\ pc = "done"
    /\ result.summary = ExhaustedSummary
    /\ Len(preflightLog) >= 3

\* ---------------------------------------------------------------- C40
\* the entries of a filesystem that lie outside the repository root
OutsideRepo(fs) == {e \in fs : ~Under(RepoRoot, e.path)}

\* C40: an operation of deterministic_ops with a path argument that resolves
\* outside the repository root is refused before anything is changed, and
\* after any sequence of operations nothing outside the repository root has
\* been created, modified or deleted.
C40_NothingOutsideRepoTouched ==
    /\ call.outside_arg => (call.status = "refused" /\ ~call.changed)
    /\ OutsideRepo(call.fs) = OutsideRepo(call.start)

\* the first half of C40 alone: a path argument resolving outside the
\* repository root is refused and nothing is changed
C40_OutsideArgumentRefused ==
    call.outside_arg => (call.status = "refused" /\ ~call.changed)

\* an operation was given a path behind a link that leads out of the
\* repository, and was refused
C40_RefusalHappens ==
    /\ call.outside_arg
    /\ call.status = "refused"
    /\ \E e \in call.fs : e.path = <<"repo", "esc">> /\ e.kind = "link"

====
